---------------------------- MODULE Spec2Model ----------------------------
(***************************************************************************)
(* A model of the external AI service of the report builder: the SOQL      *)
(* builder (utils/soqlBuilder.js), the OpenAI service                      *)
(* (services/openaiService.js), the schema catalog                         *)
(* (config/salesforceMapping.js), the routes of routes/parseQuery.js with  *)
(* the error middleware of server.js, and the aiReportBuilder Lightning    *)
(* web component.                                                          *)
(*                                                                         *)
(* JavaScript strings are TLA+ strings, handled character by character     *)
(* (Len, SubSeq and \o), so that includes(), toUpperCase(), trim() and     *)
(* the regular expressions of the code are matched on the text itself.     *)
(* JavaScript arrays are sequences.                                        *)
(***************************************************************************)
EXTENDS Integers, Sequences, FiniteSets, TLC

VARIABLES
    pc,                \* where the running operation stands
    configured,        \* openaiService.isConfigured, set by initialize()
    query,             \* req.body.query / originalQuery
    aiResponse,        \* the intent: processQuery's result, generateSOQL's argument
    soqlResult,        \* what generateSOQL returned last
    firstCall,         \* the first of two generateSOQL calls: the fields given, the result
    probe,             \* the lists buildSelectClause and buildWhereClause joined last
    soql,              \* the text handed to validateSOQL
    validationResult,  \* what validateSOQL returned
    response,          \* the HTTP response of the route
    returned,          \* a method called on its own: its name, arguments and result
    requests,          \* the server: each open POST request with its handler's locals
    arrivals,          \* the server: the open POST requests in the order they arrived
    catalog,           \* the server: the tables the singletons hold
    lastReply,         \* the server: the response to the last GET request
    isProcessing,      \* the component: _isProcessing
    currentQuery,      \* the component: _currentQuery
    queryHistory,      \* the component: _queryHistory
    apexCalls,         \* the component: the processQuery calls that have not settled
    historyLoads,      \* the component: the getUserQueryHistory calls not settled
    connected,         \* the component: it is in the document
    submits,           \* the component: the processQuery calls started so far
    errorState         \* the component: errorState

\* The variables of one request running through the route and of methods
\* called directly
routeVars == <<pc, query, aiResponse, soqlResult, firstCall, probe,
               soql, validationResult, response, returned>>

\* The variables of the server that takes several requests
serverVars == <<requests, arrivals, catalog, lastReply>>

\* The variables of the component
componentVars == <<isProcessing, currentQuery, queryHistory, apexCalls, historyLoads,
                   connected, submits, errorState>>

vars == <<configured, routeVars, serverVars, componentVars>>

---------------------------------------------------------------------------
(* Bounds of the model *)

\* The longest AI-supplied list: an intent holds at most MaxIntentLen fields
\* and conditions in total.
MaxIntentLen == 2

---------------------------------------------------------------------------
(* JavaScript values and string methods *)

\* null (soql: null, error: null)
Null == "<null>"

\* a property that is absent from an object (undefined)
Undefined == "<undefined>"

LowerLetters == "abcdefghijklmnopqrstuvwxyz"
UpperLetters == "ABCDEFGHIJKLMNOPQRSTUVWXYZ"

CharAt(s, i) == SubSeq(s, i, i)

Rest(s) == SubSeq(s, 2, Len(s))

IsIn(c, alphabet) == \E i \in 1..Len(alphabet) : CharAt(alphabet, i) = c

IndexIn(c, alphabet) == CHOOSE i \in 1..Len(alphabet) : CharAt(alphabet, i) = c

LowerSet == {CharAt(LowerLetters, i) : i \in 1..Len(LowerLetters)}
UpperSet == {CharAt(UpperLetters, i) : i \in 1..Len(UpperLetters)}

UpperOf == [c \in LowerSet |-> CharAt(UpperLetters, IndexIn(c, LowerLetters))]
LowerOf == [c \in UpperSet |-> CharAt(LowerLetters, IndexIn(c, UpperLetters))]

UpperChar(c) == IF c \in LowerSet THEN UpperOf[c] ELSE c

LowerChar(c) == IF c \in UpperSet THEN LowerOf[c] ELSE c

\* String.prototype.toUpperCase, character by character (the text is halved
\* rather than walked, which keeps the evaluation shallow)
RECURSIVE toUpperCase(_)
toUpperCase(s) ==
    IF Len(s) = 0 THEN ""
    ELSE IF Len(s) = 1 THEN UpperChar(s)
    ELSE toUpperCase(SubSeq(s, 1, Len(s) \div 2))
         \o toUpperCase(SubSeq(s, Len(s) \div 2 + 1, Len(s)))

\* String.prototype.toLowerCase
RECURSIVE toLowerCase(_)
toLowerCase(s) ==
    IF Len(s) = 0 THEN ""
    ELSE IF Len(s) = 1 THEN LowerChar(s)
    ELSE toLowerCase(SubSeq(s, 1, Len(s) \div 2))
         \o toLowerCase(SubSeq(s, Len(s) \div 2 + 1, Len(s)))

\* String.prototype.includes: sub occurs in s at some position
includes(s, sub) ==
    \E i \in 1..(Len(s) - Len(sub) + 1) : SubSeq(s, i, i + Len(sub) - 1) = sub

\* Array.prototype.includes: x is an element of the array
arrayIncludes(list, x) == \E i \in 1..Len(list) : list[i] = x

IsWhitespace(c) == c \in {" ", "\t", "\n", "\r"}

Digits == "0123456789"

DigitSet == {CharAt(Digits, i) : i \in 1..Len(Digits)}

IsDigit(c) == c \in DigitSet

\* c && c.trim(): the string has a character that is not whitespace
IsNonBlank(c) == \E i \in 1..Len(c) : ~IsWhitespace(CharAt(c, i))

\* String.prototype.trim
RECURSIVE trimStart(_)
trimStart(s) ==
    IF s # "" /\ IsWhitespace(CharAt(s, 1)) THEN trimStart(Rest(s)) ELSE s

RECURSIVE trimEnd(_)
trimEnd(s) ==
    IF s # "" /\ IsWhitespace(CharAt(s, Len(s)))
    THEN trimEnd(SubSeq(s, 1, Len(s) - 1)) ELSE s

trim(s) == trimEnd(trimStart(s))

\* Array.prototype.join
RECURSIVE join(_, _)
join(list, sep) ==
    IF list = <<>> THEN ""
    ELSE IF Len(list) = 1 THEN list[1]
    ELSE list[1] \o sep \o join(Tail(list), sep)

\* uniqueInOrder without the Set: every value is kept
uniqueInOrderKeepAll(list) == list

\* [...new Set(list)]: the first occurrence of every value, in order
RECURSIVE uniqueInOrder(_)
uniqueInOrder(list) ==
    IF list = <<>> THEN <<>>
    ELSE LET front == uniqueInOrder(SubSeq(list, 1, Len(list) - 1))
             last  == list[Len(list)]
         IN  IF arrayIncludes(front, last) THEN front ELSE Append(front, last)

---------------------------------------------------------------------------
(* The schema catalog: salesforceMapping.buildSchema() *)

\* schema.objects.Account.fields (as a set: includes() only tests membership)
AccountFields ==
    {
        "Id", "Name", "AccountNumber", "Type", "Industry", "Rating", "Phone", "Fax",
        "Website", "PhotoUrl", "BillingStreet", "BillingCity", "BillingState",
        "BillingPostalCode", "BillingCountry", "ShippingStreet", "ShippingCity",
        "ShippingState", "ShippingPostalCode", "ShippingCountry", "Description",
        "NumberOfEmployees", "AnnualRevenue", "OwnerId", "CreatedDate", "CreatedById",
        "LastModifiedDate", "LastModifiedById", "SystemModstamp", "LastActivityDate",
        "LastViewedDate", "LastReferencedDate", "IsDeleted", "MasterRecordId", "ParentId",
        "Active__c", "AUM__c", "Client_Since__c", "Priority__c"
    }

\* schema.objects.Contact.fields (as a set: includes() only tests membership)
ContactFields ==
    {
        "Id", "IsDeleted", "MasterRecordId", "AccountId", "LastName", "FirstName",
        "Salutation", "Name", "OtherStreet", "OtherCity", "OtherState", "OtherPostalCode",
        "OtherCountry", "MailingStreet", "MailingCity", "MailingState", "MailingPostalCode",
        "MailingCountry", "Phone", "Fax", "MobilePhone", "HomePhone", "OtherPhone",
        "AssistantPhone", "ReportsToId", "Email", "Title", "Department", "AssistantName",
        "LeadSource", "Birthdate", "Description", "CreatedDate", "CreatedById",
        "LastModifiedDate", "LastModifiedById", "SystemModstamp", "LastActivityDate",
        "LastCURequestDate", "LastCUUpdateDate", "LastViewedDate", "LastReferencedDate",
        "EmailBouncedReason", "EmailBouncedDate", "IsEmailBounced", "PhotoUrl", "Jigsaw",
        "JigsawContactId", "CleanStatus", "IndividualId", "Level__c", "Languages__c",
        "Birthday_Month__c", "VIP_Status__c"
    }

\* schema.objects.Lead.fields (as a set: includes() only tests membership)
LeadFields ==
    {
        "Id", "IsDeleted", "MasterRecordId", "LastName", "FirstName", "Salutation", "Name",
        "Title", "Company", "Street", "City", "State", "PostalCode", "Country", "Phone",
        "MobilePhone", "Fax", "Email", "Website", "PhotoUrl", "Description", "LeadSource",
        "Status", "Industry", "Rating", "AnnualRevenue", "NumberOfEmployees", "OwnerId",
        "IsConverted", "ConvertedDate", "ConvertedAccountId", "ConvertedContactId",
        "ConvertedOpportunityId", "IsUnreadByOwner", "CreatedDate", "CreatedById",
        "LastModifiedDate", "LastModifiedById", "SystemModstamp", "LastActivityDate",
        "LastViewedDate", "LastReferencedDate", "Jigsaw", "JigsawContactId", "CleanStatus",
        "IndividualId", "CompanyDunsNumber", "DandbCompanyId", "EmailBouncedReason",
        "EmailBouncedDate", "IsEmailBounced", "SICCode__c", "ProductInterest__c",
        "Primary__c", "CurrentGenerators__c", "NumberofLocations__c"
    }

\* schema.objects.Opportunity.fields (as a set: includes() only tests membership)
OpportunityFields ==
    {
        "Id", "IsDeleted", "AccountId", "RecordTypeId", "Name", "Amount", "CloseDate",
        "StageName", "Type", "Probability", "ExpectedRevenue", "TotalOpportunityQuantity",
        "NextStep", "LeadSource", "IsClosed", "IsWon", "ForecastCategory",
        "ForecastCategoryName", "CampaignId", "HasOpportunityLineItem", "Pricebook2Id",
        "OwnerId", "CreatedDate", "CreatedById", "LastModifiedDate", "LastModifiedById",
        "SystemModstamp", "LastActivityDate", "LastStageChangeDate", "FiscalYear",
        "FiscalQuarter", "Fiscal", "ContactId", "LastViewedDate", "LastReferencedDate",
        "Description", "HasOpenActivity", "HasOverdueTask", "DeliveryInstallationStatus__c",
        "TrackingNumber__c", "OrderNumber__c", "CurrentGenerators__c", "MainCompetitors__c"
    }

\* schema.objects.Case.fields (as a set: includes() only tests membership)
CaseFields ==
    {
        "Id", "IsDeleted", "CaseNumber", "ContactId", "AccountId", "AssetId", "ParentId",
        "SuppliedName", "SuppliedEmail", "SuppliedPhone", "SuppliedCompany", "Type",
        "Status", "Reason", "Origin", "Subject", "Priority", "Description", "IsClosed",
        "IsEscalated", "OwnerId", "CreatedDate", "CreatedById", "LastModifiedDate",
        "LastModifiedById", "SystemModstamp", "LastViewedDate", "LastReferencedDate",
        "ClosedDate", "IsClosedOnCreate", "EscalationStartTime", "BusinessHoursId",
        "IsStopped", "StopStartDate", "ContactEmail", "ContactPhone", "ContactMobile",
        "ContactFax", "Comments", "LastCaseUpdate", "CreatedByRole", "LastModifiedByRole",
        "IsVisibleInSelfService", "Days_Since_Last_Update__c", "Escalation_Level__c",
        "SLA_Breach__c", "Customer_Satisfaction__c"
    }

\* schema.objects.Task.fields (as a set: includes() only tests membership)
TaskFields ==
    {
        "Id", "WhoId", "WhatId", "WhoCount", "WhatCount", "Subject", "ActivityDate",
        "Status", "Priority", "Description", "Type", "IsDeleted", "AccountId", "IsArchived",
        "CallDurationInSeconds", "CallType", "CallDisposition", "CallObject",
        "ReminderDateTime", "IsReminderSet", "RecurrenceActivityId", "IsRecurrence",
        "RecurrenceStartDateOnly", "RecurrenceEndDateOnly", "RecurrenceTimeZoneSidKey",
        "RecurrenceType", "RecurrenceInterval", "RecurrenceDayOfWeekMask",
        "RecurrenceDayOfMonth", "RecurrenceInstance", "RecurrenceMonthOfYear",
        "RecurrenceRegeneratedType", "TaskSubtype", "CompletedDateTime", "CreatedDate",
        "CreatedById", "LastModifiedDate", "LastModifiedById", "SystemModstamp"
    }

\* schema.objects.Event.fields (as a set: includes() only tests membership)
EventFields ==
    {
        "Id", "WhoId", "WhatId", "WhoCount", "WhatCount", "Subject", "Location",
        "IsAllDayEvent", "ActivityDateTime", "ActivityDate", "DurationInMinutes",
        "StartDateTime", "EndDateTime", "Description", "Type", "IsPrivate", "ShowAs",
        "IsDeleted", "IsArchived", "IsGroupEvent", "GroupEventType", "CreatedDate",
        "CreatedById", "LastModifiedDate", "LastModifiedById", "SystemModstamp",
        "RecurrenceActivityId", "IsRecurrence", "RecurrenceStartDateOnly",
        "RecurrenceEndDateOnly", "RecurrenceTimeZoneSidKey", "RecurrenceType",
        "RecurrenceInterval", "RecurrenceDayOfWeekMask", "RecurrenceDayOfMonth",
        "RecurrenceInstance", "RecurrenceMonthOfYear", "RecurrenceRegeneratedType"
    }

\* Object.keys(schema.objects)
SupportedObjects ==
    {"Account", "Contact", "Lead", "Opportunity", "Case", "Task", "Event"}

\* schema.objects[object].fields
schemaFields(object) ==
    CASE object = "Account"     -> AccountFields
      [] object = "Contact"     -> ContactFields
      [] object = "Lead"        -> LeadFields
      [] object = "Opportunity" -> OpportunityFields
      [] object = "Case"        -> CaseFields
      [] object = "Task"        -> TaskFields
      [] object = "Event"       -> EventFields

\* Names every JavaScript object inherits from Object.prototype: a lookup
\* table[name] with one of them finds the inherited property, which is truthy
\* and has neither a fields property nor an includes method.
InheritedKeys ==
    {"constructor", "toString", "valueOf", "hasOwnProperty", "__proto__"}

\* The truthiness of table[object] for a table keyed by the supported objects
\* (this.schema.objects[object], defaultFields[object], ...)
lookupIsTruthy(object) == object \in SupportedObjects \/ object \in InheritedKeys

\* buildBusinessTerms: the entries of the table as <<phrase, token>>, section
\* by section
objectMappings ==
    {<<"customers", "Account">>, <<"accounts", "Account">>, <<"companies", "Account">>,
     <<"organizations", "Account">>, <<"contacts", "Contact">>, <<"people", "Contact">>,
     <<"individuals", "Contact">>, <<"leads", "Lead">>, <<"prospects", "Lead">>,
     <<"opportunities", "Opportunity">>, <<"deals", "Opportunity">>,
     <<"sales", "Opportunity">>, <<"cases", "Case">>, <<"support", "Case">>,
     <<"tickets", "Case">>, <<"tasks", "Task">>, <<"activities", "Task">>,
     <<"events", "Event">>, <<"meetings", "Event">>, <<"appointments", "Event">>}

statusMappings ==
    {<<"active", "Active">>, <<"inactive", "Inactive">>, <<"open", "Open">>,
     <<"closed", "Closed">>, <<"won", "Won">>, <<"lost", "Lost">>,
     <<"pending", "Pending">>, <<"draft", "Draft">>, <<"submitted", "Submitted">>,
     <<"approved", "Approved">>, <<"rejected", "Rejected">>}

industryMappings ==
    {<<"technology", "Technology">>, <<"tech", "Technology">>,
     <<"software", "Technology">>, <<"healthcare", "Healthcare">>,
     <<"medical", "Healthcare">>, <<"finance", "Financial Services">>,
     <<"banking", "Financial Services">>, <<"insurance", "Financial Services">>,
     <<"manufacturing", "Manufacturing">>, <<"retail", "Retail">>,
     <<"education", "Education">>, <<"government", "Government">>,
     <<"nonprofit", "Non-Profit">>}

priorityMappings ==
    {<<"high", "High">>, <<"medium", "Medium">>, <<"low", "Low">>, <<"urgent", "High">>,
     <<"critical", "High">>, <<"normal", "Medium">>, <<"minor", "Low">>}

businessTerms ==
    objectMappings \cup statusMappings \cup industryMappings \cup priorityMappings

\* this.businessTerms[key]: the token of the entry, the value Object.prototype
\* gives for a name it defines (a function or an object, never a string), or
\* undefined
businessTermsLookup(key) ==
    IF \E e \in businessTerms : e[1] = key
    THEN [type |-> "string", value |-> (CHOOSE e \in businessTerms : e[1] = key)[2]]
    ELSE IF key \in InheritedKeys THEN [type |-> "inherited", value |-> key]
    ELSE [type |-> "undefined", value |-> Undefined]

\* mapBusinessTerm of a string: what it returns, with the type of the value
mapBusinessTerm(term) ==
    LET lowerTerm == toLowerCase(term)
        found     == businessTermsLookup(lowerTerm)
    IN  IF found.type = "undefined" THEN [type |-> "string", value |-> term]
        ELSE found

---------------------------------------------------------------------------
(* The SOQL builder: utils/soqlBuilder.js *)

\* getDefaultFields, for the keys of its table
defaultFieldsTable(object) ==
    CASE object = "Account" -> <<"Id", "Name", "Industry", "Type", "CreatedDate">>
      [] object = "Contact" -> <<"Id", "Name", "Email", "Phone", "Title", "CreatedDate">>
      [] object = "Lead" -> <<"Id", "Name", "Company", "Email", "Status", "CreatedDate">>
      [] object = "Opportunity" ->
            <<"Id", "Name", "Amount", "StageName", "CloseDate", "CreatedDate">>
      [] object = "Case" ->
            <<"Id", "CaseNumber", "Subject", "Status", "Priority", "CreatedDate">>
      [] object = "Task" -> <<"Id", "Subject", "Status", "Priority", "CreatedDate">>
      [] object = "Event" ->
            <<"Id", "Subject", "StartDateTime", "EndDateTime", "CreatedDate">>

getDefaultFields(object) ==
    IF object \in SupportedObjects THEN defaultFieldsTable(object)
    ELSE <<"Id", "Name", "CreatedDate">>

\* getDefaultConditions with empty tables
getDefaultConditionsNone(object) == <<>>

getDefaultConditions(object) == <<"IsDeleted = false">>

getOrderByFields(object) ==
    CASE object \in {"Account", "Contact", "Lead"} -> <<"Name">>
      [] object = "Opportunity" -> <<"CloseDate DESC">>
      [] object = "Event" -> <<"StartDateTime">>
      [] OTHER -> <<"CreatedDate DESC">>

\* isFieldValid, for an object that is a key of the catalog
isFieldValid(field, object) ==
    /\ object \in SupportedObjects
    /\ \/ field \in schemaFields(object)
       \/ includes(field, "__c")
       \/ field \in {"Id", "Name", "CreatedDate", "LastModifiedDate"}

\* fieldsWithId with push in place of unshift: Id is put last
fieldsWithIdAppended(fields, object) ==
    LET given == IF fields = <<>> THEN getDefaultFields(object) ELSE fields
    IN  IF arrayIncludes(given, "Id") THEN given ELSE given \o <<"Id">>

\* fieldsWithId without the includes test: Id is put in front on every call
fieldsWithIdAlways(fields, object) ==
    LET given == IF fields = <<>> THEN getDefaultFields(object) ELSE fields
    IN  <<"Id">> \o given

\* The array that buildSelectClause works on: the given one, or the defaults
\* when it is absent or empty, with Id put in front when it has none.
fieldsWithId(fields, object) ==
    LET given == IF fields = <<>> THEN getDefaultFields(object) ELSE fields
    IN  IF arrayIncludes(given, "Id") THEN given ELSE <<"Id">> \o given

\* What the call leaves in the caller's array: unshift changes the array in
\* place; an empty array is replaced by the defaults in the local variable only.
fieldsAfterCall(fields, object) ==
    IF fields = <<>> THEN fields ELSE fieldsWithId(fields, object)

\* filterValid without the test: every field is kept
filterValidKeepAll(fields, object) == fields

RECURSIVE filterValid(_, _)
filterValid(fields, object) ==
    IF fields = <<>> THEN <<>>
    ELSE (IF isFieldValid(fields[1], object) THEN <<fields[1]>> ELSE <<>>)
         \o filterValid(Tail(fields), object)

\* validFields of buildSelectClause
selectFields(fields, object) ==
    LET validFields == filterValid(fieldsWithId(fields, object), object)
    IN  IF validFields = <<>> THEN <<"Id", "Name">> ELSE validFields

buildSelectClause(fields, object) == "SELECT " \o join(selectFields(fields, object), ", ")

buildFromClause(object) == "FROM " \o object

\* extractConditionsFromQuery with every date phrase tested on its own, as
\* the other groups are
extractConditionsAllDates(q, object) ==
    LET lowerQuery == toLowerCase(q)
        has(w) == includes(lowerQuery, w)
        when(found, condition) == IF found THEN <<condition>> ELSE <<>>
        date ==
            when(has("this month") \/ has("current month"), "CreatedDate = THIS_MONTH")
            \o when(has("last month"), "CreatedDate = LAST_MONTH")
            \o when(has("this quarter"), "CreatedDate = THIS_QUARTER")
            \o when(has("last quarter"), "CreatedDate = LAST_QUARTER")
            \o when(has("this year"), "CreatedDate = THIS_YEAR")
            \o when(has("last year"), "CreatedDate = LAST_YEAR")
        status ==
            IF has("active") \/ has("open")
            THEN IF object = "Account" THEN <<"Active__c = true">>
                 ELSE IF object = "Opportunity" THEN <<"IsClosed = false">>
                 ELSE IF object = "Case" THEN <<"Status != 'Closed'">>
                 ELSE <<>>
            ELSE <<>>
        amount ==
            IF has("high revenue") \/ has("high value")
            THEN IF object = "Opportunity" THEN <<"Amount > 100000">>
                 ELSE IF object = "Account" THEN <<"AnnualRevenue > 1000000">>
                 ELSE <<>>
            ELSE <<>>
        industry ==
            IF (has("technology") \/ has("tech")) /\ object = "Account"
            THEN <<"Industry = 'Technology'">>
            ELSE <<>>
    IN  date \o status \o amount \o industry

\* extractConditionsFromQuery with the four groups in one else-if chain: only
\* the first group that matches contributes
extractConditionsFirstGroup(q, object) ==
    LET lowerQuery == toLowerCase(q)
        has(w) == includes(lowerQuery, w)
        date ==
            IF has("this month") \/ has("current month") THEN <<"CreatedDate = THIS_MONTH">>
            ELSE IF has("last month") THEN <<"CreatedDate = LAST_MONTH">>
            ELSE IF has("this quarter") THEN <<"CreatedDate = THIS_QUARTER">>
            ELSE IF has("last quarter") THEN <<"CreatedDate = LAST_QUARTER">>
            ELSE IF has("this year") THEN <<"CreatedDate = THIS_YEAR">>
            ELSE IF has("last year") THEN <<"CreatedDate = LAST_YEAR">>
            ELSE <<>>
        status ==
            IF object = "Account" THEN <<"Active__c = true">>
            ELSE IF object = "Opportunity" THEN <<"IsClosed = false">>
            ELSE IF object = "Case" THEN <<"Status != 'Closed'">>
            ELSE <<>>
        amount ==
            IF object = "Opportunity" THEN <<"Amount > 100000">>
            ELSE IF object = "Account" THEN <<"AnnualRevenue > 1000000">>
            ELSE <<>>
        industry ==
            IF object = "Account" THEN <<"Industry = 'Technology'">> ELSE <<>>
    IN  IF date # <<>> THEN date
        ELSE IF has("active") \/ has("open") THEN status
        ELSE IF has("high revenue") \/ has("high value") THEN amount
        ELSE IF has("technology") \/ has("tech") THEN industry
        ELSE <<>>

extractConditionsFromQuery(q, object) ==
    LET lowerQuery == toLowerCase(q)
        has(w) == includes(lowerQuery, w)
        date ==
            IF has("this month") \/ has("current month") THEN <<"CreatedDate = THIS_MONTH">>
            ELSE IF has("last month") THEN <<"CreatedDate = LAST_MONTH">>
            ELSE IF has("this quarter") THEN <<"CreatedDate = THIS_QUARTER">>
            ELSE IF has("last quarter") THEN <<"CreatedDate = LAST_QUARTER">>
            ELSE IF has("this year") THEN <<"CreatedDate = THIS_YEAR">>
            ELSE IF has("last year") THEN <<"CreatedDate = LAST_YEAR">>
            ELSE <<>>
        status ==
            IF has("active") \/ has("open")
            THEN IF object = "Account" THEN <<"Active__c = true">>
                 ELSE IF object = "Opportunity" THEN <<"IsClosed = false">>
                 ELSE IF object = "Case" THEN <<"Status != 'Closed'">>
                 ELSE <<>>
            ELSE <<>>
        amount ==
            IF has("high revenue") \/ has("high value")
            THEN IF object = "Opportunity" THEN <<"Amount > 100000">>
                 ELSE IF object = "Account" THEN <<"AnnualRevenue > 1000000">>
                 ELSE <<>>
            ELSE <<>>
        industry ==
            IF (has("technology") \/ has("tech")) /\ object = "Account"
            THEN <<"Industry = 'Technology'">>
            ELSE <<>>
    IN  date \o status \o amount \o industry

RECURSIVE filterNonBlank(_)
filterNonBlank(conditions) ==
    IF conditions = <<>> THEN <<>>
    ELSE (IF IsNonBlank(conditions[1]) THEN <<conditions[1]>> ELSE <<>>)
         \o filterNonBlank(Tail(conditions))

\* candidateConditions with the default filters pushed first
candidateConditionsDefaultsFirst(conditions, originalQuery, object) ==
    getDefaultConditions(object) \o conditions
        \o extractConditionsFromQuery(originalQuery, object)

\* whereConditions of buildWhereClause: the AI conditions, those of the query,
\* the defaults
candidateConditions(conditions, originalQuery, object) ==
    conditions \o extractConditionsFromQuery(originalQuery, object)
               \o getDefaultConditions(object)

\* uniqueConditions of buildWhereClause
whereConditions(conditions, originalQuery, object) ==
    uniqueInOrder(filterNonBlank(candidateConditions(conditions, originalQuery, object)))

buildWhereClause(conditions, originalQuery, object) ==
    LET uniqueConditions == whereConditions(conditions, originalQuery, object)
    IN  IF uniqueConditions = <<>> THEN ""
        ELSE "WHERE " \o join(uniqueConditions, " AND ")

buildOrderByClause(object) ==
    LET orderFields == getOrderByFields(object)
    IN  IF orderFields = <<>> THEN "" ELSE "ORDER BY " \o join(orderFields, ", ")

limitClause == "LIMIT 1000"

\* combineClauses with the ORDER BY clause put before the WHERE clause
combineClausesSwapped(selectClause, fromClause, whereClause, orderByClause) ==
    trim(selectClause \o " " \o fromClause \o " " \o orderByClause \o " "
         \o whereClause \o " " \o limitClause)

\* the template of generateSOQL, trimmed
combineClauses(selectClause, fromClause, whereClause, orderByClause) ==
    trim(selectClause \o " " \o fromClause \o " " \o whereClause \o " "
         \o orderByClause \o " " \o limitClause)

\* The message of the exception generateSOQL catches, or Null when none is thrown
generateError(ai) ==
    IF ~ai.success THEN "AI response indicates failure"
    ELSE IF ~lookupIsTruthy(ai.object) THEN "Unsupported object: " \o ai.object
    ELSE IF ai.object \in SupportedObjects THEN Null
    ELSE IF ai.fields = <<>> THEN "fields.includes is not a function"
    ELSE "Cannot read properties of undefined (reading 'includes')"

generateSOQL(ai, originalQuery) ==
    IF generateError(ai) # Null
    THEN [success |-> FALSE, error |-> generateError(ai), soql |-> Null]
    ELSE [success |-> TRUE,
          soql |-> combineClauses(buildSelectClause(ai.fields, ai.object),
                                  buildFromClause(ai.object),
                                  buildWhereClause(ai.conditions, originalQuery, ai.object),
                                  buildOrderByClause(ai.object)),
          fields |-> fieldsAfterCall(ai.fields, ai.object),
          object |-> ai.object,
          conditions |-> ai.conditions]

\* The caller's intent after the call: unshift has run when buildSelectClause
\* was reached (the object lookup was truthy) with a non-empty array without Id.
intentAfterGenerate(ai) ==
    IF ai.success /\ lookupIsTruthy(ai.object)
    THEN [ai EXCEPT !.fields = fieldsAfterCall(ai.fields, ai.object)]
    ELSE ai

\* The index of the first character of s, from position i on, that is not
\* whitespace (Len(s) + 1 when there is none)
RECURSIVE skipWhitespace(_, _)
skipWhitespace(s, i) ==
    IF i <= Len(s) /\ IsWhitespace(CharAt(s, i)) THEN skipWhitespace(s, i + 1) ELSE i

\* The digits of s from position i on, as far as they go
RECURSIVE digitsFrom(_, _)
digitsFrom(s, i) ==
    IF i <= Len(s) /\ IsDigit(CharAt(s, i))
    THEN CharAt(s, i) \o digitsFrom(s, i + 1) ELSE ""

\* /LIMIT\s+(\d+)/i matches at position i
limitMatchesAt(s, i) ==
    /\ i + 4 <= Len(s)
    /\ toUpperCase(SubSeq(s, i, i + 4)) = "LIMIT"
    /\ skipWhitespace(s, i + 5) > i + 5
    /\ digitsFrom(s, skipWhitespace(s, i + 5)) # ""

\* soql.match(/LIMIT\s+(\d+)/i): group 1 of the leftmost match, or Null
limitMatch(s) ==
    LET matches == {i \in 1..Len(s) : limitMatchesAt(s, i)}
        first   == CHOOSE i \in matches : \A j \in matches : i <= j
    IN  IF matches = {} THEN Null
        ELSE digitsFrom(s, skipWhitespace(s, first + 5))

\* parseInt of a string of digits
RECURSIVE parseInt(_)
parseInt(digits) ==
    IF digits = "" THEN 0
    ELSE 10 * parseInt(SubSeq(digits, 1, Len(digits) - 1))
         + (IndexIn(CharAt(digits, Len(digits)), Digits) - 1)

MaxLimit == 2000

\* forbiddenKeywords without DROP
forbiddenKeywordsNoDrop == <<"INSERT", "UPDATE", "DELETE", "CREATE", "ALTER">>

forbiddenKeywords == <<"INSERT", "UPDATE", "DELETE", "DROP", "CREATE", "ALTER">>

\* The keyword on which the loop over forbiddenKeywords returns, or Null
firstForbidden(upperSoql) ==
    IF \E k \in 1..Len(forbiddenKeywords) : includes(upperSoql, forbiddenKeywords[k])
    THEN forbiddenKeywords[CHOOSE k \in 1..Len(forbiddenKeywords) :
            /\ includes(upperSoql, forbiddenKeywords[k])
            /\ \A j \in 1..(k - 1) : ~includes(upperSoql, forbiddenKeywords[j])]
    ELSE Null

invalid(reason) == [isValid |-> FALSE, error |-> reason]

\* validateSOQL with the LIMIT presence check placed before the loop over the
\* forbidden keywords
validateSOQLLimitFirst(text) ==
    LET upperSoql == toUpperCase(text)
    IN  IF text = Null \/ text = ""
        THEN invalid("SOQL query is required and must be a string")
        ELSE IF ~includes(upperSoql, "SELECT ") THEN invalid("Missing SELECT clause")
        ELSE IF ~includes(upperSoql, " FROM ") THEN invalid("Missing FROM clause")
        ELSE IF ~includes(upperSoql, " LIMIT ")
        THEN invalid("Missing LIMIT clause for performance")
        ELSE IF firstForbidden(upperSoql) # Null
        THEN invalid("Forbidden keyword detected: " \o firstForbidden(upperSoql))
        ELSE IF limitMatch(text) # Null /\ parseInt(limitMatch(text)) > MaxLimit
        THEN invalid("LIMIT value cannot exceed 2000")
        ELSE [isValid |-> TRUE, error |-> Null]

\* validateSOQL of a string, or of null (Null)
validateSOQL(text) ==
    LET upperSoql == toUpperCase(text)
    IN  IF text = Null \/ text = ""
        THEN invalid("SOQL query is required and must be a string")
        ELSE IF ~includes(upperSoql, "SELECT ") THEN invalid("Missing SELECT clause")
        ELSE IF ~includes(upperSoql, " FROM ") THEN invalid("Missing FROM clause")
        ELSE IF firstForbidden(upperSoql) # Null
        THEN invalid("Forbidden keyword detected: " \o firstForbidden(upperSoql))
        ELSE IF ~includes(upperSoql, " LIMIT ")
        THEN invalid("Missing LIMIT clause for performance")
        ELSE IF limitMatch(text) # Null /\ parseInt(limitMatch(text)) > MaxLimit
        THEN invalid("LIMIT value cannot exceed 2000")
        ELSE [isValid |-> TRUE, error |-> Null]

---------------------------------------------------------------------------
(* The OpenAI service: services/openaiService.js *)

\* fallbackObject with the lead test before the contact test
fallbackObjectLeadFirst(q) ==
    LET lowerQuery == toLowerCase(q)
    IN  IF includes(lowerQuery, "lead") THEN "Lead"
        ELSE IF includes(lowerQuery, "contact") \/ includes(lowerQuery, "person")
        THEN "Contact"
        ELSE IF includes(lowerQuery, "opportunity") \/ includes(lowerQuery, "deal")
        THEN "Opportunity"
        ELSE IF includes(lowerQuery, "case") \/ includes(lowerQuery, "support") THEN "Case"
        ELSE "Account"

fallbackObject(q) ==
    LET lowerQuery == toLowerCase(q)
    IN  IF includes(lowerQuery, "contact") \/ includes(lowerQuery, "person") THEN "Contact"
        ELSE IF includes(lowerQuery, "lead") THEN "Lead"
        ELSE IF includes(lowerQuery, "opportunity") \/ includes(lowerQuery, "deal")
        THEN "Opportunity"
        ELSE IF includes(lowerQuery, "case") \/ includes(lowerQuery, "support") THEN "Case"
        ELSE "Account"

\* fallbackFields left empty, so that the builder takes the object's defaults
fallbackFieldsEmpty == <<>>

fallbackFields == <<"Id", "Name", "CreatedDate">>

fallbackProcessing(q) ==
    [success |-> TRUE,
     intent |-> q,
     object |-> fallbackObject(q),
     fields |-> fallbackFields,
     conditions |-> <<>>,
     explanation |-> "Basic processing: " \o q \o " (OpenAI not available)"]

\* parseAIResponse on a reply whose JSON object parsed: a property that is
\* absent (named in parsed.absent) or falsy ("") takes its default
parseAIResponse(parsed, originalQuery) ==
    LET given(name) == name \notin parsed.absent
    IN  [success |-> TRUE,
         intent |-> IF given("intent") /\ parsed.intent # "" THEN parsed.intent
                    ELSE originalQuery,
         object |-> IF given("object") /\ parsed.object # "" THEN parsed.object
                    ELSE "Account",
         fields |-> IF given("fields") THEN parsed.fields ELSE <<"Id", "Name">>,
         conditions |-> IF given("conditions") THEN parsed.conditions ELSE <<>>,
         explanation |-> IF given("explanation") /\ parsed.explanation # ""
                         THEN parsed.explanation
                         ELSE "Generated query for: " \o originalQuery]

\* \w of a regular expression
WordChars == LowerSet \cup UpperSet \cup DigitSet \cup {"_"}

IsWordChar(c) == c \in WordChars

\* The alternatives of the object pattern of parseTextResponse
objectPattern ==
    <<"Account", "Contact", "Lead", "Opportunity", "Case", "Task", "Event">>

\* /(Account|Contact|Lead|Opportunity|Case|Task|Event)/i matches at position i
\* with alternative k
objectMatchesAt(s, i, k) ==
    /\ i + Len(objectPattern[k]) - 1 <= Len(s)
    /\ toLowerCase(SubSeq(s, i, i + Len(objectPattern[k]) - 1))
            = toLowerCase(objectPattern[k])

\* response.match(/(Account|...|Event)/i): group 1 of the leftmost match, as
\* the response spells it, or Null
objectMatch(s) ==
    LET matches == {i \in 1..Len(s) :
                        \E k \in 1..Len(objectPattern) : objectMatchesAt(s, i, k)}
        first   == CHOOSE i \in matches : \A j \in matches : i <= j
        k       == CHOOSE a \in 1..Len(objectPattern) :
                        /\ objectMatchesAt(s, first, a)
                        /\ \A b \in 1..(a - 1) : ~objectMatchesAt(s, first, b)
    IN  IF matches = {} THEN Null
        ELSE SubSeq(s, first, first + Len(objectPattern[k]) - 1)

\* The alternatives of the field pattern of parseTextResponse, in lower case
fieldPattern ==
    {"name", "id", "createddate", "industry", "amount", "stagename", "status",
     "email", "phone"}

\* The last position of the run of word characters that holds position i
RECURSIVE wordEnd(_, _)
wordEnd(s, i) ==
    IF i < Len(s) /\ IsWordChar(CharAt(s, i + 1)) THEN wordEnd(s, i + 1) ELSE i

\* response.match(/\b(Name|Id|...|Phone)\b/gi) from position i on, i being a
\* word boundary: between two \b an alternative, made of word characters only,
\* matches a whole run of word characters or nothing
RECURSIVE fieldMatchesFrom(_, _)
fieldMatchesFrom(s, i) ==
    IF i > Len(s) THEN <<>>
    ELSE IF ~IsWordChar(CharAt(s, i)) THEN fieldMatchesFrom(s, i + 1)
    ELSE LET word == SubSeq(s, i, wordEnd(s, i))
         IN  (IF toLowerCase(word) \in fieldPattern THEN <<word>> ELSE <<>>)
             \o fieldMatchesFrom(s, wordEnd(s, i) + 1)

\* parseTextResponse(response, originalQuery), content being the response text
parseTextResponse(content, originalQuery) ==
    LET fieldMatches == fieldMatchesFrom(content, 1)
    IN  [success |-> TRUE,
         intent |-> originalQuery,
         object |-> IF objectMatch(content) # Null THEN objectMatch(content)
                    ELSE "Account",
         fields |-> IF fieldMatches # <<>> THEN uniqueInOrder(fieldMatches)
                    ELSE <<"Id", "Name">>,
         conditions |-> <<>>,
         explanation |-> "AI processed: " \o originalQuery]

\* processQueryResult without the catch of processQuery: what the gateway or
\* the parsing throws is handed on as a failed intent
processQueryResultUncaught(outcome, q) ==
    IF outcome.kind \in {"throws", "null"}
    THEN [success |-> FALSE, error |-> "Failed to process query"]
    ELSE IF outcome.kind = "json" THEN parseAIResponse(outcome.parsed, q)
    ELSE parseTextResponse(outcome.content, q)

\* What processQuery returns once the gateway call has settled: the call threw;
\* the reply had no content (match on null throws in parseAIResponse, again in
\* parseTextResponse called from its catch, and processQuery catches that); the
\* reply held a JSON object that parsed; the reply held none, or one that
\* JSON.parse refused
processQueryResult(outcome, q) ==
    IF outcome.kind \in {"throws", "null"} THEN fallbackProcessing(q)
    ELSE IF outcome.kind = "json" THEN parseAIResponse(outcome.parsed, q)
    ELSE parseTextResponse(outcome.content, q)

---------------------------------------------------------------------------
(* The route POST /api/parse-query: routes/parseQuery.js *)

MaxQueryLength == 1000

failure(status, error, message) ==
    [status |-> status, success |-> FALSE, error |-> error, message |-> message]

\* inputInvalid with >= in place of >: a query of MaxQueryLength is refused
inputInvalidAtLimit(req) ==
    req.type # "string" \/ req.query = "" \/ Len(req.query) >= MaxQueryLength

\* The input check of the route: the request is refused
inputInvalid(req) ==
    req.type # "string" \/ req.query = "" \/ Len(req.query) > MaxQueryLength

\* The response to a request the input check refuses
inputError(req) ==
    IF req.type # "string" \/ req.query = ""
    THEN failure(400, "Invalid input", "Query parameter is required and must be a string")
    ELSE failure(400, "Input too long", "Query exceeds maximum length of 1000 characters")

\* routeResponse with the rejected text left in the 400 response
routeResponseBestEffort(ai, result, q) ==
    IF ~result.success
    THEN failure(500, "SOQL generation failed", result.error)
    ELSE IF ~validateSOQL(result.soql).isValid
    THEN [status |-> 400, success |-> FALSE, error |-> "Invalid SOQL generated",
          message |-> validateSOQL(result.soql).error, soqlQuery |-> result.soql]
    ELSE [status |-> 200,
          success |-> TRUE,
          soqlQuery |-> result.soql,
          explanation |-> ai.explanation,
          fields |-> result.fields]

\* The response of the route once generateSOQL has returned result for intent ai
routeResponse(ai, result, q) ==
    IF ~result.success
    THEN failure(500, "SOQL generation failed", result.error)
    ELSE IF ~validateSOQL(result.soql).isValid
    THEN failure(400, "Invalid SOQL generated", validateSOQL(result.soql).error)
    ELSE [status |-> 200,
          success |-> TRUE,
          soqlQuery |-> result.soql,
          explanation |-> ai.explanation,
          fields |-> result.fields]

---------------------------------------------------------------------------
(* Values a variable holds before the code has written it *)

NoIntent == [success |-> FALSE, object |-> Undefined, fields |-> <<>>,
             conditions |-> <<>>]
NoResult == [success |-> FALSE, soql |-> Null, error |-> Undefined]
NoProbe == [given |-> <<>>, select |-> <<>>, candidates |-> <<>>, where |-> <<>>]
NoCall == [given |-> <<>>, result |-> NoResult]
NoValidation == [isValid |-> FALSE, error |-> Undefined]
NoResponse == [status |-> 0, success |-> FALSE]
NoReturn == [method |-> Undefined]

\* The lists the two clause builders join in a call of generateSOQL(ai, q),
\* beside the lists they were given
probeOf(ai, q) ==
    IF generateError(ai) # Null THEN NoProbe
    ELSE [given |-> ai.fields,
          select |-> selectFields(ai.fields, ai.object),
          candidates |-> candidateConditions(ai.conditions, q, ai.object),
          where |-> whereConditions(ai.conditions, q, ai.object)]

---------------------------------------------------------------------------
(* The state of the server and of the component before anything has run *)

\* The POST requests the server handles at the same time
MaxRequests == 2

RequestIds == 1..MaxRequests

NoBody == [type |-> "undefined", query |-> ""]

NoOutcome == [kind |-> "none"]

\* A request that has not arrived: the locals of its handler are unset
NoRequest ==
    [pc |-> "idle", req |-> NoBody, outcome |-> NoOutcome, aiResponse |-> NoIntent,
     soqlResult |-> NoResult, response |-> NoResponse, gatewayCalls |-> 0]

NoReply == [endpoint |-> Undefined]

\* The tables as the process builds them at its start: the schema and the
\* business terms of the salesforceMapping singleton (the builder holds the same
\* schema object), and the tables of defaults of the builder
catalogAtStart ==
    [objects           |-> [o \in SupportedObjects |-> schemaFields(o)],
     businessTerms     |-> businessTerms,
     defaultFields     |-> [o \in SupportedObjects |-> defaultFieldsTable(o)],
     defaultConditions |-> [o \in SupportedObjects |-> getDefaultConditions(o)],
     orderByFields     |-> [o \in SupportedObjects |-> getOrderByFields(o)]]

ServerNotStarted ==
    /\ requests = [r \in RequestIds |-> NoRequest]
    /\ arrivals = <<>>
    /\ catalog = catalogAtStart
    /\ lastReply = NoReply

\* The fields of the component as its class initialises them
ComponentNotCreated ==
    /\ isProcessing = FALSE
    /\ currentQuery = ""
    /\ queryHistory = <<>>
    /\ apexCalls = <<>>
    /\ historyLoads = 0
    /\ connected = FALSE
    /\ submits = 0
    /\ errorState = Null

---------------------------------------------------------------------------
(* Inputs *)

SeqsUpTo(S, n) == UNION {[1..k -> S] : k \in 0..n}

\* String.prototype.repeat
RECURSIVE repeat(_, _)
repeat(s, n) ==
    IF n = 0 THEN ""
    ELSE IF n = 1 THEN s
    ELSE repeat(s, n \div 2) \o repeat(s, n - n \div 2)

\* A query of exactly MaxQueryLength characters, and one character more
QueryAtLimit == "open cases " \o repeat("x", MaxQueryLength - 11)

QueryOverLimit == QueryAtLimit \o "x"

\* Requests sent to the route
RouteQueries ==
    {"Show me accounts with high revenue",
     "open cases this quarter",
     "Find contacts created this month",
     "List deals with high value last year",
     "active tech leads"}

\* req.body: query is a string, is missing, or is a value of another type
\* (whose query field is not read here)
Requests ==
    [type : {"string"}, query : RouteQueries \cup {"", QueryAtLimit, QueryOverLimit}]
        \cup {[type |-> "undefined", query |-> ""], [type |-> "number", query |-> ""],
              [type |-> "object", query |-> ""]}

\* What the gateway call ends in: it throws (an API error, a timeout), or its
\* reply holds a JSON object with some of the properties of the prompt
ParsedReplies ==
    [intent : {"report"}, explanation : {"AI explanation"},
     object : {"", "Account", "Case", "Product"},
     fields : {<<>>, <<"Name", "Id">>},
     conditions : {<<"Priority = 'High'">>},
     absent : {{}, {"intent", "explanation", "fields", "conditions"}, {"object"}}]

\* Replies without a JSON object that parses: prose, and text whose braces
\* hold no valid JSON
TextReplies ==
    {"I would query the Contact object for Name and Email",
     "Use the account table: name, Name, id",
     "Sorry, I am unable to help with that",
     "{ object: 'Lead', fields: [Name] }",
     "{not json} showcase status"}

GatewayOutcomes ==
    {[kind |-> "throws"], [kind |-> "null"]}
        \cup [kind : {"json"}, parsed : ParsedReplies]
        \cup [kind : {"text"}, content : TextReplies]

\* Intents handed to generateSOQL directly
BuilderObjects == SupportedObjects \cup {"Product", "constructor"}

FieldPool == {"Id", "Name", "Amount", "Revenue__c"}

ConditionPool ==
    {"", "  ", "IsDeleted = false", "Active__c = true", "Priority = 'High'"}

BuilderQueries ==
    {"Show me accounts with high revenue",
     "open cases this quarter",
     "Active tech accounts"}

\* An intent whose success flag is false
FailedIntent ==
    [success |-> FALSE, object |-> "Account", fields |-> <<"Name">>, conditions |-> <<>>]

BuilderIntents ==
    {ai \in [success : {TRUE}, object : BuilderObjects,
             fields : SeqsUpTo(FieldPool, MaxIntentLen),
             conditions : SeqsUpTo(ConditionPool, MaxIntentLen)] :
        Len(ai.fields) + Len(ai.conditions) <= MaxIntentLen}
    \cup {FailedIntent}

\* Texts handed to validateSOQL directly: select list, FROM, a tail, LIMIT, value
ValidatorTexts ==
    {""} \cup
    {s \o f \o t \o l \o v :
        s \in {"SELECT Id", "select Id", "Id"},
        f \in {" FROM Account", " from Account", ""},
        t \in {"", "; DROP TABLE Account", " where Name = 'Dropbox'",
               " WHERE IsDeleted = false", " WHERE Name = 'NoLIMIT 7'",
               " WHERE IsDeleted = false; drop table x",
               " WHERE CreatedDate > LastUpdate__c"},
        l \in {"", " LIMIT ", " limit  "},
        v \in {"", "1000", "2000", "2001", "5000", "all"}}

---------------------------------------------------------------------------
(* The route, one request from its arrival to its response *)

Init ==
    /\ pc = "idle"
    /\ configured \in BOOLEAN
    /\ query = ""
    /\ aiResponse = NoIntent
    /\ soqlResult = NoResult
    /\ firstCall = NoCall
    /\ probe = NoProbe
    /\ soql = Null
    /\ validationResult = NoValidation
    /\ response = NoResponse
    /\ returned = NoReturn
    /\ ServerNotStarted /\ ComponentNotCreated

\* The handler up to its first await: the input check, then processQuery, which
\* returns the keyword fallback at once when the service is not configured and
\* waits for the gateway otherwise
ReceiveRequest ==
    /\ pc = "idle"
    /\ \E req \in Requests :
        IF inputInvalid(req)
        THEN /\ response' = inputError(req)
             /\ pc' = "responded"
             /\ query' = req.query
             /\ UNCHANGED aiResponse
        ELSE /\ query' = req.query
             /\ IF configured
                THEN pc' = "awaitGateway" /\ UNCHANGED aiResponse
                ELSE pc' = "awaitProcessQuery"
                     /\ aiResponse' = fallbackProcessing(req.query)
             /\ UNCHANGED response
    /\ UNCHANGED <<returned, configured, soqlResult, firstCall, probe, soql,
                   validationResult>>
    /\ UNCHANGED <<serverVars, componentVars>>

\* The gateway call settles and processQuery returns
GatewaySettles ==
    /\ pc = "awaitGateway"
    /\ \E outcome \in GatewayOutcomes :
        aiResponse' = processQueryResult(outcome, query)
    /\ pc' = "awaitProcessQuery"
    /\ UNCHANGED <<returned, configured, query, soqlResult, firstCall, probe, soql,
                   validationResult, response>>
    /\ UNCHANGED <<serverVars, componentVars>>

\* The handler from the await of processQuery to the await of generateSOQL
ResumeAfterProcessQuery ==
    /\ pc = "awaitProcessQuery"
    /\ IF ~aiResponse.success
       THEN /\ response' = failure(500, "AI processing failed",
                                   "Failed to process query with AI service")
            /\ pc' = "responded"
            /\ UNCHANGED <<aiResponse, soqlResult, probe>>
       ELSE /\ soqlResult' = generateSOQL(aiResponse, query)
            /\ probe' = probeOf(aiResponse, query)
            /\ aiResponse' = intentAfterGenerate(aiResponse)
            /\ pc' = "awaitGenerateSOQL"
            /\ UNCHANGED response
    /\ UNCHANGED <<returned, configured, query, firstCall, soql, validationResult>>
    /\ UNCHANGED <<serverVars, componentVars>>

\* The handler from the await of generateSOQL to its response
ResumeAfterGenerateSOQL ==
    /\ pc = "awaitGenerateSOQL"
    /\ response' = routeResponse(aiResponse, soqlResult, query)
    /\ IF soqlResult.success
       THEN /\ soql' = soqlResult.soql
            /\ validationResult' = validateSOQL(soqlResult.soql)
       ELSE UNCHANGED <<soql, validationResult>>
    /\ pc' = "responded"
    /\ UNCHANGED <<returned, configured, query, aiResponse, soqlResult, firstCall, probe>>
    /\ UNCHANGED <<serverVars, componentVars>>

Next ==
    \/ ReceiveRequest
    \/ GatewaySettles
    \/ ResumeAfterProcessQuery
    \/ ResumeAfterGenerateSOQL

Spec == Init /\ [][Next]_vars

---------------------------------------------------------------------------
(* generateSOQL called directly, twice on the same intent object *)

InitBuilder ==
    /\ pc = "intent"
    /\ configured = FALSE
    /\ query \in BuilderQueries
    /\ aiResponse \in BuilderIntents
    /\ soqlResult = NoResult
    /\ firstCall = NoCall
    /\ probe = NoProbe
    /\ soql = Null
    /\ validationResult = NoValidation
    /\ response = NoResponse
    /\ returned = NoReturn
    /\ ServerNotStarted /\ ComponentNotCreated

CallGenerateSOQL ==
    /\ pc \in {"intent", "once"}
    /\ soqlResult' = generateSOQL(aiResponse, query)
    /\ probe' = probeOf(aiResponse, query)
    /\ aiResponse' = intentAfterGenerate(aiResponse)
    /\ firstCall' = IF pc = "intent"
                    THEN [given |-> aiResponse.fields, result |-> soqlResult']
                    ELSE firstCall
    /\ pc' = IF pc = "intent" THEN "once" ELSE "twice"
    /\ UNCHANGED <<returned, configured, query, soql, validationResult, response>>
    /\ UNCHANGED <<serverVars, componentVars>>

\* validateSOQL called on the text generateSOQL returned
CallValidateGenerated ==
    /\ pc = "twice"
    /\ soqlResult.success
    /\ soql' = soqlResult.soql
    /\ validationResult' = validateSOQL(soqlResult.soql)
    /\ pc' = "checked"
    /\ UNCHANGED <<returned, configured, query, aiResponse, soqlResult, firstCall, probe,
                   response>>
    /\ UNCHANGED <<serverVars, componentVars>>

NextBuilder == CallGenerateSOQL \/ CallValidateGenerated

SpecBuilder == InitBuilder /\ [][NextBuilder]_vars

---------------------------------------------------------------------------
(* validateSOQL called directly on a text *)

InitValidator ==
    /\ pc = "text"
    /\ configured = FALSE
    /\ query = ""
    /\ aiResponse = NoIntent
    /\ soqlResult = NoResult
    /\ firstCall = NoCall
    /\ probe = NoProbe
    /\ soql \in ValidatorTexts
    /\ validationResult = NoValidation
    /\ response = NoResponse
    /\ returned = NoReturn
    /\ ServerNotStarted /\ ComponentNotCreated

CallValidateSOQL ==
    /\ pc = "text"
    /\ validationResult' = validateSOQL(soql)
    /\ pc' = "validated"
    /\ UNCHANGED <<returned, configured, query, aiResponse, soqlResult, firstCall, probe,
                   soql, response>>
    /\ UNCHANGED <<serverVars, componentVars>>

NextValidator == CallValidateSOQL

SpecValidator == InitValidator /\ [][NextValidator]_vars

---------------------------------------------------------------------------
(* Methods of the builder and of the OpenAI service called on their own *)

\* Field names handed to isFieldValid
MethodFields ==
    {"Id", "Name", "CreatedDate", "LastModifiedDate", "Industry", "Amount",
     "Email", "Bogus", "Revenue__c", "AUM__c", "Revenue__c_old", "__cName"}

\* What a direct call of isFieldValid(field, object) ends in: for a name that
\* Object.prototype defines, schema.objects[object] is truthy and has no fields,
\* and reading includes of undefined throws
isFieldValidCall(field, object) ==
    IF lookupIsTruthy(object) /\ object \notin SupportedObjects
    THEN [method |-> "isFieldValid", field |-> field, object |-> object,
          threw |-> TRUE,
          error |-> "Cannot read properties of undefined (reading 'includes')"]
    ELSE [method |-> "isFieldValid", field |-> field, object |-> object,
          threw |-> FALSE,
          result |-> isFieldValid(field, object)]

\* Queries handed to extractConditionsFromQuery: up to two date phrases, in
\* either order, and phrases of the other groups
ScanDatePhrases ==
    {"", "this month", "Last Month", "this quarter", "last quarter", "THIS YEAR",
     "last year", "current month"}

ScanOtherPhrases ==
    {"", "still open", "high value tech", "Active High Revenue technology"}

ScanQueries ==
    {"records " \o d1 \o " and " \o d2 \o " " \o rest :
        d1 \in ScanDatePhrases, d2 \in ScanDatePhrases, rest \in ScanOtherPhrases}

ScanObjects == {"Account", "Opportunity", "Case", "Contact", "Product"}

\* Queries handed to fallbackProcessing: up to two object keywords, in either
\* order
FallbackKeywords ==
    {"", "contact", "Person", "LEAD", "opportunity", "Deal", "case", "Support",
     "account", "task"}

FallbackQueries ==
    {"show " \o k1 \o " with " \o k2 : k1 \in FallbackKeywords, k2 \in FallbackKeywords}

InitMethods ==
    /\ pc = "ready"
    /\ configured = FALSE
    /\ query = ""
    /\ aiResponse = NoIntent
    /\ soqlResult = NoResult
    /\ firstCall = NoCall
    /\ probe = NoProbe
    /\ soql = Null
    /\ validationResult = NoValidation
    /\ response = NoResponse
    /\ returned = NoReturn
    /\ ServerNotStarted /\ ComponentNotCreated

CallIsFieldValid ==
    /\ pc = "ready"
    /\ \E field \in MethodFields, object \in BuilderObjects :
            returned' = isFieldValidCall(field, object)
    /\ pc' = "returned"
    /\ UNCHANGED <<configured, query, aiResponse, soqlResult, firstCall, probe,
                   soql, validationResult, response>>
    /\ UNCHANGED <<serverVars, componentVars>>

CallExtractConditionsFromQuery ==
    /\ pc = "ready"
    /\ \E q \in ScanQueries, object \in ScanObjects :
            returned' = [method |-> "extractConditionsFromQuery",
                         query |-> q, object |-> object,
                         result |-> extractConditionsFromQuery(q, object)]
    /\ pc' = "returned"
    /\ UNCHANGED <<configured, query, aiResponse, soqlResult, firstCall, probe,
                   soql, validationResult, response>>
    /\ UNCHANGED <<serverVars, componentVars>>

CallFallbackProcessing ==
    /\ pc = "ready"
    /\ \E q \in FallbackQueries :
            returned' = [method |-> "fallbackProcessing", query |-> q,
                         result |-> fallbackProcessing(q)]
    /\ pc' = "returned"
    /\ UNCHANGED <<configured, query, aiResponse, soqlResult, firstCall, probe,
                   soql, validationResult, response>>
    /\ UNCHANGED <<serverVars, componentVars>>

\* Intents whose fields and conditions carry blanks: before, after and inside
\* an entry, and entries that are blank
SpacedFields ==
    {<<>>, <<"Name", "Industry">>, <<" Revenue__c">>, <<"Net  Worth__c", "Name">>,
     <<"  ", "Name">>}

SpacedConditions ==
    {<<>>, <<"Active__c = true">>, <<" Active__c = true">>, <<"Active__c = true ">>,
     <<"Priority =  'High'">>, <<"  ", "Priority = 'High'", "">>}

SpacedQueries == {"", "open cases this quarter"}

SpacedIntents ==
    [success : {TRUE}, object : SupportedObjects, fields : SpacedFields,
     conditions : SpacedConditions]

CallGenerateSOQLOnIntent ==
    /\ pc = "ready"
    /\ \E ai \in SpacedIntents, q \in SpacedQueries :
            returned' = [method |-> "generateSOQL", intent |-> ai, query |-> q,
                         result |-> generateSOQL(ai, q)]
    /\ pc' = "returned"
    /\ UNCHANGED <<configured, query, aiResponse, soqlResult, firstCall, probe,
                   soql, validationResult, response>>
    /\ UNCHANGED <<serverVars, componentVars>>

\* Terms handed to mapBusinessTerm: the phrases of the table, as they are, in
\* capitals and capitalised, and terms that are no phrase of the table
TermInputs ==
    {e[1] : e \in businessTerms}
        \cup {toUpperCase(e[1]) : e \in businessTerms}
        \cup {"Customers", "Deals", "Tech", "Widgets", "", " deals", "high value",
              "Account", "constructor", "Constructor", "toString", "__proto__"}

CallMapBusinessTerm ==
    /\ pc = "ready"
    /\ \E term \in TermInputs :
            returned' = [method |-> "mapBusinessTerm", term |-> term,
                         result |-> mapBusinessTerm(term)]
    /\ pc' = "returned"
    /\ UNCHANGED <<configured, query, aiResponse, soqlResult, firstCall, probe,
                   soql, validationResult, response>>
    /\ UNCHANGED <<serverVars, componentVars>>

NextMethods ==
    \/ CallIsFieldValid
    \/ CallExtractConditionsFromQuery
    \/ CallFallbackProcessing
    \/ CallGenerateSOQLOnIntent
    \/ CallMapBusinessTerm

SpecMethods == InitMethods /\ [][NextMethods]_vars

---------------------------------------------------------------------------
(* The server: several POST /api/parse-query requests at once, each        *)
(* suspended at its awaits, and the two GET routes                         *)

\* What a run of generateSOQL leaves in the tables of the singletons. Its
\* writes are: unshift on `fields`, which is the caller's array or, when that
\* is empty, the row of the table literal getDefaultFields has just built;
\* push on validFields, the copy filter() returned; push on the local
\* whereConditions. isFieldValid reads schema.objects[object].fields with
\* includes. None of the arrays written is held by a singleton.
catalogAfterGenerateSOQLCaching(cat, ai) ==
    IF generateError(ai) # Null THEN cat
    ELSE [cat EXCEPT !.objects[ai.object] =
            @ \cup {ai.fields[i] : i \in {j \in 1..Len(ai.fields) :
                                            includes(ai.fields[j], "__c")}}]

catalogAfterGenerateSOQL(cat, ai) == cat

\* The number of chat.completions.create calls processQuery issues for a query
\* with create() called without the isConfigured guard
gatewayCallsIssuedUnguarded(isConfigured) == 1

\* The number of chat.completions.create calls processQuery issues for a
\* query: none when it returns the fallback at once, one otherwise
gatewayCallsIssued(isConfigured) == IF isConfigured THEN 1 ELSE 0

\* handlerQuery for a `query` declared outside the handler: it holds the query
\* of the request that arrived last
handlerQueryShared(reqs, order, r) == reqs[order[Len(order)]].req.query

\* `query` as the handler of request r reads it after an await: the constant
\* bound inside the handler when the request arrived
handlerQuery(reqs, order, r) == reqs[r].req.query

\* The member isConfigured of the openaiService instance: the constructor and
\* initialize() assign a boolean to this.isConfigured, an own property, which
\* hides the method of the same name that the class defines on the prototype
isConfiguredMember(flag) == [type |-> "boolean", value |-> flag]

\* openaiService.isConfigured(): calling a member that is no function throws
callIsConfigured(flag) ==
    IF isConfiguredMember(flag).type = "function"
    THEN [threw |-> FALSE, value |-> flag]
    ELSE [threw |-> TRUE, message |-> "openaiService.isConfigured is not a function"]

\* The error middleware of server.js, which answers for a handler that threw
errorMiddleware(message, development) ==
    [endpoint |-> "health", status |-> 500,
     body |-> [success |-> FALSE, error |-> "Internal server error",
               message |-> IF development THEN message ELSE "Something went wrong"]]

\* The response to GET /api/parse-query/health
healthReply(flag, development) ==
    LET call == callIsConfigured(flag)
    IN  IF call.threw THEN errorMiddleware(call.message, development)
        ELSE [endpoint |-> "health", status |-> 200,
              body |-> [success |-> TRUE, service |-> "Parse Query Service",
                        status |-> "healthy",
                        openai |-> IF call.value THEN "configured"
                                   ELSE "not configured"]]

\* The response to GET /api/salesforce-schema
schemaReply(cat) ==
    [endpoint |-> "schema", status |-> 200,
     body |-> [success |-> TRUE, schema |-> cat.objects]]

ServerQueries == {"Show me accounts with high revenue", "open cases this quarter"}

ServerRequests == [type : {"string"}, query : ServerQueries] \cup {NoBody}

\* What the gateway call of a request ends in: it throws, it replies with JSON
\* whose fields hold a custom field and no Id, it replies with prose
ServerOutcomes ==
    {[kind |-> "throws"],
     [kind |-> "json",
      parsed |-> [intent |-> "report", explanation |-> "AI explanation",
                  object |-> "Case", fields |-> <<"Subject", "Region__c">>,
                  conditions |-> <<"Priority = 'High'">>, absent |-> {}]],
     [kind |-> "text", content |-> "Use the account table: name, Name, id"]}

\* The query texts of the requests
ServerTexts == {req.query : req \in ServerRequests}

\* The intents processQuery returns for these requests, as returned and as
\* generateSOQL leaves them
ServerIntents ==
    {fallbackProcessing(q) : q \in ServerQueries}
        \cup {processQueryResult(o, q) : o \in ServerOutcomes, q \in ServerQueries}

ServerIntentsAfter == ServerIntents \cup {intentAfterGenerate(ai) : ai \in ServerIntents}

\* fallbackProcessing, processQueryResult, generateSOQL and routeResponse as
\* functions over the inputs of the server's requests: each value is computed
\* by the operator of the same name, once
fallbackProcessingOf == [q \in ServerTexts |-> fallbackProcessing(q)]

processQueryResultOf ==
    [o \in ServerOutcomes, q \in ServerTexts |-> processQueryResult(o, q)]

generateSOQLOf == [ai \in ServerIntents, q \in ServerTexts |-> generateSOQL(ai, q)]

ServerResults == {generateSOQLOf[ai, q] : ai \in ServerIntents, q \in ServerTexts}

routeResponseOf ==
    [ai \in ServerIntentsAfter, result \in ServerResults, q \in ServerTexts |->
        routeResponse(ai, result, q)]

InitServer ==
    /\ pc = "server"
    /\ configured \in BOOLEAN
    /\ query = ""
    /\ aiResponse = NoIntent
    /\ soqlResult = NoResult
    /\ firstCall = NoCall
    /\ probe = NoProbe
    /\ soql = Null
    /\ validationResult = NoValidation
    /\ response = NoResponse
    /\ returned = NoReturn
    /\ ServerNotStarted /\ ComponentNotCreated

\* The handler of request r up to its first await
ServerReceive(r) ==
    /\ requests[r].pc = "idle"
    /\ \E req \in ServerRequests :
        requests' = [requests EXCEPT ![r] =
            IF inputInvalid(req)
            THEN [@ EXCEPT !.req = req, !.response = inputError(req),
                           !.pc = "responded"]
            ELSE IF configured
            THEN [@ EXCEPT !.req = req, !.pc = "awaitGateway",
                           !.gatewayCalls = @ + gatewayCallsIssued(configured)]
            ELSE [@ EXCEPT !.req = req, !.pc = "awaitProcessQuery",
                           !.gatewayCalls = @ + gatewayCallsIssued(configured),
                           !.aiResponse = fallbackProcessingOf[req.query]]]
    /\ arrivals' = Append(arrivals, r)
    /\ UNCHANGED <<configured, routeVars, catalog, lastReply, componentVars>>

\* The gateway call of request r settles and processQuery returns: the reply
\* is parsed, or the catch returns the keyword fallback; create() is not called
\* again
ServerGatewaySettles(r) ==
    /\ requests[r].pc = "awaitGateway"
    /\ \E outcome \in ServerOutcomes :
        requests' = [requests EXCEPT ![r] =
            [@ EXCEPT !.outcome = outcome,
                      !.aiResponse = processQueryResultOf[outcome, requests[r].req.query],
                      !.pc = "awaitProcessQuery"]]
    /\ UNCHANGED <<configured, routeVars, arrivals, catalog, lastReply, componentVars>>

\* The handler of request r from the await of processQuery to the await of
\* generateSOQL
ServerResumeAfterProcessQuery(r) ==
    /\ requests[r].pc = "awaitProcessQuery"
    /\ LET ai == requests[r].aiResponse
           q  == handlerQuery(requests, arrivals, r)
       IN  IF ~ai.success
           THEN /\ requests' = [requests EXCEPT ![r] =
                        [@ EXCEPT !.response =
                                    failure(500, "AI processing failed",
                                            "Failed to process query with AI service"),
                                  !.pc = "responded"]]
                /\ UNCHANGED catalog
           ELSE /\ requests' = [requests EXCEPT ![r] =
                        [@ EXCEPT !.soqlResult = generateSOQLOf[ai, q],
                                  !.aiResponse = intentAfterGenerate(ai),
                                  !.pc = "awaitGenerateSOQL"]]
                /\ catalog' = catalogAfterGenerateSOQL(catalog, ai)
    /\ UNCHANGED <<configured, routeVars, arrivals, lastReply, componentVars>>

\* The handler of request r from the await of generateSOQL to its response
ServerResumeAfterGenerateSOQL(r) ==
    /\ requests[r].pc = "awaitGenerateSOQL"
    /\ requests' = [requests EXCEPT ![r] =
            [@ EXCEPT !.response = routeResponseOf[requests[r].aiResponse,
                                                   requests[r].soqlResult,
                                                   handlerQuery(requests, arrivals, r)],
                      !.pc = "responded"]]
    /\ UNCHANGED <<configured, routeVars, arrivals, catalog, lastReply, componentVars>>

\* The handler of request r is over and its locals are gone
ServerClose(r) ==
    /\ requests[r].pc = "responded"
    /\ requests' = [requests EXCEPT ![r] = NoRequest]
    /\ arrivals' = SelectSeq(arrivals, LAMBDA i : i # r)
    /\ UNCHANGED <<configured, routeVars, catalog, lastReply, componentVars>>

\* GET /api/salesforce-schema: the schema is read and serialised
ServerGetSchema ==
    /\ lastReply' = schemaReply(catalog)
    /\ UNCHANGED <<configured, routeVars, requests, arrivals, catalog, componentVars>>

\* GET /api/parse-query/health, in either environment
ServerGetHealth ==
    /\ \E development \in BOOLEAN : lastReply' = healthReply(configured, development)
    /\ UNCHANGED <<configured, routeVars, requests, arrivals, catalog, componentVars>>

NextServer ==
    \/ \E r \in RequestIds : ServerReceive(r)
    \/ \E r \in RequestIds : ServerGatewaySettles(r)
    \/ \E r \in RequestIds : ServerResumeAfterProcessQuery(r)
    \/ \E r \in RequestIds : ServerResumeAfterGenerateSOQL(r)
    \/ \E r \in RequestIds : ServerClose(r)
    \/ ServerGetSchema
    \/ ServerGetHealth

SpecServer == InitServer /\ [][NextServer]_vars

---------------------------------------------------------------------------
(* The aiReportBuilder component: its handlers and the continuations of    *)
(* its two Apex calls                                                      *)

QUERY_MIN_LENGTH == 5

MAX_HISTORY_RECORDS == 50

\* The Apex calls of a kind that the component starts in one run
MaxCalls == 2

\* isQueryDisabled without the _isProcessing test
isQueryDisabledWhileIdleOnly(processing, q) == q = "" \/ Len(q) < QUERY_MIN_LENGTH

\* get isQueryDisabled
isQueryDisabled(processing, q) ==
    processing \/ q = "" \/ Len(q) < QUERY_MIN_LENGTH

\* _saveToHistory: the entry is put in front, and the list is cut to its first
\* MAX_HISTORY_RECORDS entries when it is longer
saveToHistory(history, q, result) ==
    LET longer == <<[query |-> q, result |-> result]>> \o history
    IN  IF Len(longer) > MAX_HISTORY_RECORDS
        THEN SubSeq(longer, 1, MAX_HISTORY_RECORDS)
        ELSE longer

\* What the user types into the query input
TypedQueries == {"abcd", "open cases", "show leads"}

\* What a processQuery call for query q ends in: a result for q with success
\* true, a result with success false and no errorMessage, a rejection
ApexOutcomes(q) ==
    {[kind |-> "resolved", result |-> [success |-> TRUE, forQuery |-> q]],
     [kind |-> "resolved", result |-> [success |-> FALSE, forQuery |-> q]],
     [kind |-> "rejected", message |-> "Apex request failed"]}

\* A record of getUserQueryHistory as _loadQueryHistory maps it: the query and
\* the result stored with it
StoredEntry ==
    [query |-> "stored query", result |-> [success |-> TRUE, forQuery |-> "stored query"]]

\* The numbers of records getUserQueryHistory returns when asked for at most
\* MAX_HISTORY_RECORDS
LoadedCounts == {0, 1, MAX_HISTORY_RECORDS - 1, MAX_HISTORY_RECORDS}

InitComponent ==
    /\ pc = "component"
    /\ configured = FALSE
    /\ query = ""
    /\ aiResponse = NoIntent
    /\ soqlResult = NoResult
    /\ firstCall = NoCall
    /\ probe = NoProbe
    /\ soql = Null
    /\ validationResult = NoValidation
    /\ response = NoResponse
    /\ returned = NoReturn
    /\ ServerNotStarted /\ ComponentNotCreated

\* connectedCallback: _initializeComponent empties the history and starts
\* _loadQueryHistory, which runs up to its await
ConnectedCallback ==
    /\ ~connected
    /\ historyLoads < MaxCalls
    /\ connected' = TRUE
    /\ queryHistory' = <<>>
    /\ historyLoads' = historyLoads + 1
    /\ UNCHANGED <<isProcessing, currentQuery, apexCalls, submits, errorState>>
    /\ UNCHANGED <<configured, routeVars, serverVars>>

\* disconnectedCallback: _cleanup empties the history; calls that have not
\* settled stay as they are
DisconnectedCallback ==
    /\ connected
    /\ connected' = FALSE
    /\ queryHistory' = <<>>
    /\ UNCHANGED <<isProcessing, currentQuery, apexCalls, historyLoads, submits,
                   errorState>>
    /\ UNCHANGED <<configured, routeVars, serverVars>>

\* handleQueryInput: the text of the input is stored, whatever else is going on
HandleQueryInput ==
    /\ connected
    /\ \E value \in TypedQueries : currentQuery' = value
    /\ UNCHANGED <<isProcessing, queryHistory, apexCalls, historyLoads, connected,
                   submits, errorState>>
    /\ UNCHANGED <<configured, routeVars, serverVars>>

\* handleQuerySubmit: unless the query is disabled, _processUserQuery runs up
\* to its await, with the current query as the argument of the call
HandleQuerySubmit ==
    /\ connected
    /\ submits < MaxCalls
    /\ IF isQueryDisabled(isProcessing, currentQuery)
       THEN UNCHANGED <<isProcessing, apexCalls, submits, errorState>>
       ELSE /\ isProcessing' = TRUE
            /\ errorState' = Null
            /\ apexCalls' = Append(apexCalls, [query |-> currentQuery])
            /\ submits' = submits + 1
    /\ UNCHANGED <<currentQuery, queryHistory, historyLoads, connected>>
    /\ UNCHANGED <<configured, routeVars, serverVars>>

\* A processQuery call settles and _processUserQuery runs from its await to
\* its end: on success the entry is saved under this._currentQuery as it is
\* now; otherwise the error is handled; finally resets _isProcessing
ProcessQuerySettles ==
    /\ \E i \in 1..Len(apexCalls) : \E outcome \in ApexOutcomes(apexCalls[i].query) :
        /\ IF outcome.kind = "resolved" /\ outcome.result.success
           THEN /\ queryHistory' = saveToHistory(queryHistory, currentQuery,
                                                 outcome.result)
                /\ UNCHANGED errorState
           ELSE /\ errorState' = (IF outcome.kind = "resolved"
                                  THEN "Query processing failed"
                                  ELSE outcome.message)
                /\ UNCHANGED queryHistory
        /\ apexCalls' = SubSeq(apexCalls, 1, i - 1)
                            \o SubSeq(apexCalls, i + 1, Len(apexCalls))
    /\ isProcessing' = FALSE
    /\ UNCHANGED <<currentQuery, historyLoads, connected, submits>>
    /\ UNCHANGED <<configured, routeVars, serverVars>>

\* A getUserQueryHistory call settles and _loadQueryHistory runs from its
\* await to its end: a non-empty list replaces the history; an empty list or a
\* rejection leaves it
LoadHistorySettles ==
    /\ historyLoads > 0
    /\ \E count \in LoadedCounts :
        queryHistory' = IF count > 0 THEN [i \in 1..count |-> StoredEntry]
                        ELSE queryHistory
    /\ historyLoads' = historyLoads - 1
    /\ UNCHANGED <<isProcessing, currentQuery, apexCalls, connected, submits,
                   errorState>>
    /\ UNCHANGED <<configured, routeVars, serverVars>>

NextComponent ==
    \/ ConnectedCallback
    \/ DisconnectedCallback
    \/ HandleQueryInput
    \/ HandleQuerySubmit
    \/ ProcessQuerySettles
    \/ LoadHistorySettles

SpecComponent == InitComponent /\ [][NextComponent]_vars

---------------------------------------------------------------------------
(* Properties *)

\* The number of positions of s at which sub occurs
Occurrences(s, sub) ==
    Cardinality({i \in 1..(Len(s) - Len(sub) + 1) : SubSeq(s, i, i + Len(sub) - 1) = sub})

\* The first position of s at which sub occurs, 0 when there is none
IndexOf(s, sub) ==
    LET at == {i \in 1..(Len(s) - Len(sub) + 1) : SubSeq(s, i, i + Len(sub) - 1) = sub}
    IN  IF at = {} THEN 0 ELSE CHOOSE i \in at : \A j \in at : i <= j

StartsWith(s, sub) == Len(sub) <= Len(s) /\ SubSeq(s, 1, Len(sub)) = sub

EndsWith(s, sub) == Len(sub) <= Len(s) /\ SubSeq(s, Len(s) - Len(sub) + 1, Len(s)) = sub

\* The number of elements of list equal to x
CountOf(list, x) == Cardinality({i \in 1..Len(list) : list[i] = x})

\* The first index of list holding x, 0 when there is none
FirstIndex(list, x) ==
    IF arrayIncludes(list, x)
    THEN CHOOSE i \in 1..Len(list) : list[i] = x /\ \A j \in 1..(i - 1) : list[j] # x
    ELSE 0

\* generateSOQL has been called on the intent
Generated == pc \in {"once", "twice", "checked", "awaitGenerateSOQL", "responded"}

\* The clauses of text t stand in the order SELECT, FROM, WHERE, ORDER BY, LIMIT,
\* each at most once, SELECT, FROM and LIMIT exactly once
ClausesInOrder(t) ==
    LET from    == IndexOf(t, " FROM ")
        where   == IndexOf(t, " WHERE ")
        orderBy == IndexOf(t, " ORDER BY ")
        limit   == IndexOf(t, " LIMIT ")
    IN  /\ StartsWith(t, "SELECT ")
        /\ Occurrences(t, "SELECT ") = 1
        /\ Occurrences(t, " FROM ") = 1
        /\ Occurrences(t, " WHERE ") <= 1
        /\ Occurrences(t, " ORDER BY ") <= 1
        /\ Occurrences(t, " LIMIT ") = 1
        /\ from < limit
        /\ where > 0 => (from < where /\ where < limit)
        /\ orderBy > 0 => (from < orderBy /\ where < orderBy /\ orderBy < limit)

\* C1: for every supported object and every fields list, conditions list and
\* original query of a successful intent, generateSOQL returns success and a
\* text that starts with its one SELECT clause, continues with one FROM clause,
\* at most one WHERE clause and at most one ORDER BY clause in that order, and
\* ends with the literal LIMIT 1000 whatever the input.
C1_ClausesInOrderLimit1000 ==
    (pc \in {"once", "twice", "checked"} /\ aiResponse.success
        /\ aiResponse.object \in SupportedObjects)
    => /\ soqlResult.success
       /\ ClausesInOrder(soqlResult.soql)
       /\ EndsWith(soqlResult.soql, " LIMIT 1000")

\* C1 witness: a text returned for an Opportunity whose WHERE clause joins an AI
\* condition, a condition of the query and the default filter.
C1_Witness ==
    /\ pc = "once"
    /\ soqlResult.success
    /\ aiResponse.object = "Opportunity"
    /\ Len(probe.where) >= 3
    /\ IndexOf(soqlResult.soql, " WHERE ") > 0

\* C2 (as claimed): whenever generateSOQL returned a text to the route, the
\* validator accepts it and the route answers 200 with that text as soqlQuery.
C2_GeneratedTextAccepted ==
    (pc = "responded" /\ soqlResult.success)
    => /\ validationResult.isValid
       /\ response.status = 200
       /\ response.success

\* C3 (as claimed): the SELECT list holds Id exactly once, as its first element.
C3_IdOnceAndFirst ==
    (Generated /\ soqlResult.success)
    => /\ probe.select[1] = "Id"
       /\ CountOf(probe.select, "Id") = 1

\* C3 (amended): the SELECT list always holds Id; when the list given holds no
\* Id (or is empty), Id is its first element and occurs exactly once; when the
\* list given holds Id, the SELECT list holds it as many times as given, and the
\* SELECT clause of the text is that list.
C3_IdIncluded ==
    (Generated /\ soqlResult.success)
    => /\ arrayIncludes(probe.select, "Id")
       /\ ~arrayIncludes(probe.given, "Id")
            => (probe.select[1] = "Id" /\ CountOf(probe.select, "Id") = 1)
       /\ arrayIncludes(probe.given, "Id")
            => CountOf(probe.select, "Id") = CountOf(probe.given, "Id")
       /\ StartsWith(soqlResult.soql, "SELECT " \o join(probe.select, ", ") \o " FROM ")

\* C3 witness: a non-empty list without Id was given and Id was put in front.
C3_Witness ==
    /\ pc = "once"
    /\ soqlResult.success
    /\ probe.given # <<>>
    /\ ~arrayIncludes(probe.given, "Id")
    /\ aiResponse.fields[1] = "Id"

\* C4: the predicates joined with ' AND ' are pairwise distinct, none is blank,
\* every non-blank candidate (AI condition, condition of the query, default
\* filter) is among them, they stand in the order of their first occurrence
\* among the candidates, and the WHERE clause of the text is their join.
C4_PredicatesDistinct ==
    (Generated /\ soqlResult.success)
    => /\ \A i, j \in 1..Len(probe.where) : i # j => probe.where[i] # probe.where[j]
       /\ \A i \in 1..Len(probe.where) : trim(probe.where[i]) # ""
       /\ \A i \in 1..Len(probe.candidates) :
            trim(probe.candidates[i]) # "" => arrayIncludes(probe.where, probe.candidates[i])
       /\ \A i, j \in 1..Len(probe.where) :
            i < j => /\ FirstIndex(probe.candidates, probe.where[i]) > 0
                     /\ FirstIndex(probe.candidates, probe.where[i])
                            < FirstIndex(probe.candidates, probe.where[j])
       /\ includes(soqlResult.soql,
                   " WHERE " \o join(probe.where, " AND ") \o " ORDER BY ")

\* C4 witness: the candidates held a blank predicate and the same predicate twice.
C4_Witness ==
    /\ pc = "once"
    /\ soqlResult.success
    /\ \E i \in 1..Len(probe.candidates) : trim(probe.candidates[i]) = ""
    /\ \E i, j \in 1..Len(probe.candidates) :
            i < j /\ probe.candidates[i] = probe.candidates[j]
                  /\ trim(probe.candidates[i]) # ""

\* C5 (as claimed): for an object name that is no key of the catalog,
\* generateSOQL returns success false and soql null with an error that names
\* the unsupported object.
C5_UnsupportedObjectNamed ==
    (pc \in {"once", "twice"} /\ aiResponse.success
        /\ aiResponse.object \notin SupportedObjects)
    => /\ ~soqlResult.success
       /\ soqlResult.soql = Null
       /\ soqlResult.error = "Unsupported object: " \o aiResponse.object

\* C6: the second of two calls of generateSOQL with the same intent object and
\* the same original query returns what the first returned: the same text, or
\* the same failure.
C6_SecondCallSameText ==
    pc \in {"twice", "checked"}
    => /\ soqlResult.success = firstCall.result.success
       /\ soqlResult.soql = firstCall.result.soql

\* C6 witness: two calls were made and the first put Id in front of the fields.
C6_Witness ==
    /\ pc = "twice"
    /\ soqlResult.success
    /\ firstCall.given # <<>>
    /\ ~arrayIncludes(firstCall.given, "Id")
    /\ aiResponse.fields = <<"Id">> \o firstCall.given

\* The validator has run on the text soql
Validated == pc = "validated"

ContainsDrop(text) == includes(toUpperCase(text), "DROP")

\* C7 (as claimed): every text that contains DROP, in any case, is rejected
\* with the forbidden keyword DROP as the reason.
C7_DropIsTheReason ==
    (Validated /\ ContainsDrop(soql))
    => /\ ~validationResult.isValid
       /\ validationResult.error = "Forbidden keyword detected: DROP"

\* C7 (amended): every text that contains DROP, in any case, is rejected; the
\* reason is the forbidden keyword DROP when the text has 'SELECT ' and ' FROM '
\* and holds none of INSERT, UPDATE, DELETE, and an earlier check's reason
\* otherwise.
C7_DropRejected ==
    (Validated /\ ContainsDrop(soql))
    => /\ ~validationResult.isValid
       /\ LET upper == toUpperCase(soql)
              earlier == \/ ~includes(upper, "SELECT ")
                         \/ ~includes(upper, " FROM ")
                         \/ includes(upper, "INSERT")
                         \/ includes(upper, "UPDATE")
                         \/ includes(upper, "DELETE")
          IN  (validationResult.error = "Forbidden keyword detected: DROP") <=> ~earlier

\* C7 witness: a text with SELECT and FROM that holds Drop in mixed case was
\* rejected for the keyword DROP.
C7_Witness ==
    /\ Validated
    /\ includes(soql, "Drop")
    /\ ~includes(soql, "DROP")
    /\ validationResult.error = "Forbidden keyword detected: DROP"

\* C8 (as claimed): a text the validator accepts carries a number after LIMIT,
\* and no number that follows a LIMIT in it exceeds 2000.
C8_AcceptedHasLimitAtMost2000 ==
    (Validated /\ validationResult.isValid)
    => /\ limitMatch(soql) # Null
       /\ \A i \in 1..Len(soql) :
            limitMatchesAt(soql, i)
                => parseInt(digitsFrom(soql, skipWhitespace(soql, i + 5))) <= MaxLimit

\* The explanation of the keyword fallback for query q
fallbackExplanation(q) == "Basic processing: " \o q \o " (OpenAI not available)"

HighRevenueQuery == "Show me accounts with high revenue"

\* The request for HighRevenueQuery went through the keyword fallback and
\* generateSOQL has run
HighRevenueByFallback ==
    /\ pc \in {"awaitGenerateSOQL", "responded"}
    /\ query = HighRevenueQuery
    /\ aiResponse.explanation = fallbackExplanation(HighRevenueQuery)

\* C9 (as claimed): the text assembled for HighRevenueQuery by keyword fallback
\* selects the default fields of Account.
C9_TextWithDefaultFields ==
    HighRevenueByFallback
    => soqlResult.soql = "SELECT Id, Name, Industry, Type, CreatedDate FROM Account WHERE AnnualRevenue > 1000000 AND IsDeleted = false ORDER BY Name LIMIT 1000"

\* C9 (amended): the text assembled for HighRevenueQuery by keyword fallback
\* selects the three fallback fields Id, Name, CreatedDate:
\* SELECT Id, Name, CreatedDate FROM Account WHERE AnnualRevenue > 1000000 AND
\* IsDeleted = false ORDER BY Name LIMIT 1000.
C9_TextWithFallbackFields ==
    HighRevenueByFallback
    => /\ soqlResult.success
       /\ soqlResult.soql = "SELECT Id, Name, CreatedDate FROM Account WHERE AnnualRevenue > 1000000 AND IsDeleted = false ORDER BY Name LIMIT 1000"

\* C9 witness: the text was assembled after the gateway call had thrown.
C9_Witness ==
    /\ HighRevenueByFallback
    /\ configured
    /\ pc = "awaitGenerateSOQL"

\* C10 (as claimed): a valid query answered by keyword fallback, the gateway
\* being unconfigured or its call failing, gets a 200 success response with the
\* fallback explanation.
C10_FallbackSucceeds ==
    (pc = "responded" /\ query # "" /\ aiResponse.success
        /\ aiResponse.explanation = fallbackExplanation(query))
    => /\ response.status = 200
       /\ response.success
       /\ response.explanation = fallbackExplanation(query)

\* C11: every response of the route is either a success whose soqlQuery is the
\* text generateSOQL returned, fully assembled and accepted by validateSOQL, or
\* a failure without a soqlQuery.
C11_NoPartialResult ==
    pc = "responded"
    => IF response.success
       THEN /\ soqlResult.success
            /\ response.soqlQuery = soqlResult.soql
            /\ validationResult.isValid
            /\ validateSOQL(response.soqlQuery).isValid
            /\ ClausesInOrder(response.soqlQuery)
            /\ EndsWith(response.soqlQuery, " LIMIT 1000")
       ELSE "soqlQuery" \notin DOMAIN response

\* C11 witness: a text was assembled and the validator rejected it; the 400
\* response does not carry it.
C11_Witness ==
    /\ pc = "responded"
    /\ soqlResult.success
    /\ soql = soqlResult.soql
    /\ ~validationResult.isValid
    /\ response.status = 400
    /\ ~response.success
    /\ "soqlQuery" \notin DOMAIN response

\* C12 (as claimed): on success the fields value generateSOQL returns is the
\* field list placed in the SELECT clause of the returned text.
C12_FieldsAreSelected ==
    (pc \in {"once", "twice", "checked"} /\ soqlResult.success)
    => /\ soqlResult.fields = probe.select
       /\ StartsWith(soqlResult.soql,
                     "SELECT " \o join(soqlResult.fields, ", ") \o " FROM ")

\* processQuery has returned to the route
ProcessQueryReturned == pc \in {"awaitProcessQuery", "awaitGenerateSOQL"}

InputRefused ==
    /\ response.status = 400
    /\ ~response.success
    /\ response.error \in {"Invalid input", "Input too long"}

\* C14: a request whose query is missing, empty, not a string or longer than
\* 1000 characters is answered 400 by the input check before processQuery,
\* generateSOQL or validateSOQL is called; a query of exactly 1000 characters
\* passes the input check, as does every query the check does not name.
C14_InputCheckedFirst ==
    /\ (pc # "idle" /\ (query = "" \/ Len(query) > 1000))
        => /\ pc = "responded"
           /\ InputRefused
           /\ response.error = (IF query = "" THEN "Invalid input" ELSE "Input too long")
           /\ aiResponse = NoIntent
           /\ soqlResult = NoResult
           /\ probe = NoProbe
           /\ soql = Null
           /\ validationResult = NoValidation
    /\ (pc # "idle" /\ query # "" /\ Len(query) <= 1000)
        => /\ ~InputRefused
           /\ pc = "awaitGateway" \/ aiResponse.success

\* C14 witness: a query of 1001 characters was refused with 400 and no
\* collaborator had been called.
C14_Witness ==
    /\ pc = "responded"
    /\ Len(query) = 1001
    /\ response.status = 400
    /\ response.error = "Input too long"
    /\ aiResponse = NoIntent
    /\ soqlResult = NoResult
    /\ validationResult = NoValidation

\* A query of exactly 1000 characters was handed to processQuery
C14_AtLimitPasses ==
    /\ Len(query) = 1000
    /\ pc = "awaitProcessQuery"
    /\ aiResponse.success

\* C15 (as claimed): isFieldValid(field, object) is true exactly when the object
\* is in the catalog and the field is in its field list, or ends with __c, or is
\* one of Id, Name, CreatedDate, LastModifiedDate; it is false for every field
\* of an object outside the catalog and for a field that holds __c before other
\* characters.
C15_ValidExactlyWhenListedOrSuffixed ==
    returned.method = "isFieldValid"
    => /\ ~returned.threw
       /\ returned.result =
            (/\ returned.object \in SupportedObjects
             /\ \/ returned.field \in schemaFields(returned.object)
                \/ EndsWith(returned.field, "__c")
                \/ returned.field \in {"Id", "Name", "CreatedDate", "LastModifiedDate"})

\* The list given, or the default fields of the object when none is given, with
\* Id put in front when it holds none
ReferenceWithId(given, object) ==
    LET base == IF Len(given) = 0 THEN defaultFieldsTable(object) ELSE given
    IN  IF \E i \in 1..Len(base) : base[i] = "Id" THEN base ELSE <<"Id">> \o base

\* list is what remains of from when the elements that fail isFieldValid are
\* taken out and the others stay in place
IsValidPartInOrder(list, from, object) ==
    LET kept == {i \in 1..Len(from) : isFieldValid(from[i], object)}
    IN  /\ Len(list) = Cardinality(kept)
        /\ \A k \in 1..Len(list) :
            \E i \in kept : /\ Cardinality({j \in kept : j <= i}) = k
                            /\ list[k] = from[i]

\* C16: the SELECT list is the list given (the object's default fields when the
\* list given is empty), with Id put in front if it holds none, reduced to the
\* fields that pass isFieldValid, in their order; with an empty list given it is
\* the object's default fields unchanged, each of which is in the object's field
\* list or one of the four standard fields.
C16_SelectListIsReference ==
    (pc \in {"once", "twice", "checked"} /\ soqlResult.success)
    => /\ IsValidPartInOrder(probe.select,
                             ReferenceWithId(probe.given, aiResponse.object),
                             aiResponse.object)
       /\ probe.given = <<>>
            => /\ probe.select = defaultFieldsTable(aiResponse.object)
               /\ \A i \in 1..Len(probe.select) :
                    probe.select[i] \in schemaFields(aiResponse.object)
                        \cup {"Id", "Name", "CreatedDate", "LastModifiedDate"}

\* C16 witness: the list given held a field the object does not have and no Id;
\* the SELECT list is Id and the valid rest.
C16_Witness ==
    /\ pc = "once"
    /\ soqlResult.success
    /\ Len(probe.given) = 2
    /\ ~arrayIncludes(probe.given, "Id")
    /\ ~isFieldValid(probe.given[1], aiResponse.object)
    /\ isFieldValid(probe.given[2], aiResponse.object)
    /\ probe.select = <<"Id", probe.given[2]>>

DefaultFilter == "IsDeleted = false"

\* The predicates of list stand in where in the order they have in list: every
\* two of them that differ keep the order of their first occurrences
KeepsOrderOf(where, list) ==
    \A i, j \in 1..Len(where) :
        (i < j /\ arrayIncludes(list, where[i]) /\ arrayIncludes(list, where[j]))
            => FirstIndex(list, where[i]) < FirstIndex(list, where[j])

\* C17 (as claimed): the default filter IsDeleted = false is always the last
\* predicate of the WHERE clause.
C17_DefaultFilterLast ==
    (pc \in {"once", "twice", "checked"} /\ soqlResult.success)
    => /\ probe.where # <<>>
       /\ probe.where[Len(probe.where)] = DefaultFilter
       /\ includes(soqlResult.soql, " AND " \o DefaultFilter \o " ORDER BY ")
            \/ includes(soqlResult.soql, " WHERE " \o DefaultFilter \o " ORDER BY ")

\* C17 (amended): the predicates stand in the order AI conditions, conditions
\* of the query, default filter, each at the place of its first occurrence; the
\* default filter IsDeleted = false is always among them, and it is the last
\* one unless the AI conditions already hold it, in which case it stays where
\* the AI conditions have it.
C17_ConditionsInSourceOrder ==
    (pc \in {"once", "twice", "checked"} /\ soqlResult.success)
    => LET ai      == aiResponse.conditions
           scanned == extractConditionsFromQuery(query, aiResponse.object)
           where   == probe.where
       IN  /\ probe.candidates = ai \o scanned \o <<DefaultFilter>>
           /\ KeepsOrderOf(where, probe.candidates)
           /\ \A i, j \in 1..Len(where) :
                (arrayIncludes(ai, where[j]) /\ ~arrayIncludes(ai, where[i])) => j < i
           /\ \A i, j \in 1..Len(where) :
                (/\ arrayIncludes(scanned, where[j])
                 /\ ~arrayIncludes(ai, where[i])
                 /\ ~arrayIncludes(scanned, where[i])) => j < i
           /\ arrayIncludes(where, DefaultFilter)
           /\ ~arrayIncludes(ai, DefaultFilter) => where[Len(where)] = DefaultFilter
           /\ arrayIncludes(ai, DefaultFilter)
                => \A k \in 1..Len(where) :
                    (k > FirstIndex(where, DefaultFilter))
                        <=> (FirstIndex(probe.candidates, where[k])
                                > FirstIndex(ai, DefaultFilter))

\* C17 witness: "open cases this quarter" on Case with an AI condition: the
\* clause holds the AI condition, the date and status predicates of the query
\* and, last, the default filter.
C17_Witness ==
    /\ pc = "once"
    /\ soqlResult.success
    /\ aiResponse.object = "Case"
    /\ query = "open cases this quarter"
    /\ probe.where = <<"Priority = 'High'", "CreatedDate = THIS_QUARTER",
                       "Status != 'Closed'", DefaultFilter>>
    /\ includes(soqlResult.soql, " WHERE Priority = 'High' AND CreatedDate = THIS_QUARTER AND Status != 'Closed' AND IsDeleted = false ORDER BY ")

\* phrase occurs in query q, in any case
Mentions(q, phrase) == includes(toLowerCase(q), phrase)

DateLiterals ==
    <<"THIS_MONTH", "LAST_MONTH", "THIS_QUARTER", "LAST_QUARTER", "THIS_YEAR",
      "LAST_YEAR">>

\* The six temporal phrases in their priority order
SixDatePhrases ==
    <<{"this month"}, {"last month"}, {"this quarter"}, {"last quarter"},
      {"this year"}, {"last year"}>>

\* The same with current month beside this month
DatePhrasesOfTheCode ==
    <<{"this month", "current month"}, {"last month"}, {"this quarter"},
      {"last quarter"}, {"this year"}, {"last year"}>>

\* The places of list that hold a predicate on CreatedDate
DatePredicates(list) == {i \in 1..Len(list) : StartsWith(list[i], "CreatedDate = ")}

\* The list extractConditionsFromQuery returned holds no CreatedDate predicate
\* when the query mentions no phrase of groups, and otherwise exactly one, in
\* first place, with the literal of the first group of which a phrase is
\* mentioned
OneDateByPriority(groups) ==
    LET hits  == {k \in 1..Len(groups) : \E p \in groups[k] : Mentions(returned.query, p)}
        first == CHOOSE k \in hits : \A j \in hits : k <= j
        dates == DatePredicates(returned.result)
    IN  /\ Cardinality(dates) <= 1
        /\ hits = {} => dates = {}
        /\ hits # {} => /\ dates = {1}
                        /\ returned.result[1] = "CreatedDate = " \o DateLiterals[first]

\* C18 (as claimed): at most one CreatedDate predicate per query, that of the
\* first phrase mentioned in the order this month, last month, this quarter,
\* last quarter, this year, last year, and none when the query mentions none of
\* these.
C18_OneDateOfSixPhrases ==
    returned.method = "extractConditionsFromQuery" => OneDateByPriority(SixDatePhrases)

\* C18 (amended): the same with current month counted as this month.
C18_OneDateByPriority ==
    returned.method = "extractConditionsFromQuery"
        => OneDateByPriority(DatePhrasesOfTheCode)

\* C18 witness: the query mentions last year before this quarter; the only date
\* predicate is that of this quarter.
C18_Witness ==
    /\ returned.method = "extractConditionsFromQuery"
    /\ Mentions(returned.query, "last year and this quarter")
    /\ DatePredicates(returned.result) = {1}
    /\ returned.result[1] = "CreatedDate = THIS_QUARTER"

\* What the status phrases active and open give for an object
StatusPredicate(object) ==
    CASE object = "Account" -> <<"Active__c = true">>
      [] object = "Opportunity" -> <<"IsClosed = false">>
      [] object = "Case" -> <<"Status != 'Closed'">>
      [] OTHER -> <<>>

\* What the value phrases high revenue and high value give for an object
ValuePredicate(object) ==
    CASE object = "Opportunity" -> <<"Amount > 100000">>
      [] object = "Account" -> <<"AnnualRevenue > 1000000">>
      [] OTHER -> <<>>

\* What the industry phrases technology and tech give for an object
IndustryPredicate(object) ==
    IF object = "Account" THEN <<"Industry = 'Technology'">> ELSE <<>>

\* C19: the list extractConditionsFromQuery returns is the date predicate, if
\* any, followed by the contribution of the status phrases, that of the value
\* phrases and that of the industry phrases, each present exactly when the query
\* mentions a phrase of its group and fixed by the object alone, whatever the
\* other groups contribute.
C19_ScansIndependentAndAdditive ==
    returned.method = "extractConditionsFromQuery"
    => LET q        == returned.query
           dates    == Cardinality(DatePredicates(returned.result))
           status   == IF Mentions(q, "active") \/ Mentions(q, "open")
                       THEN StatusPredicate(returned.object) ELSE <<>>
           value    == IF Mentions(q, "high revenue") \/ Mentions(q, "high value")
                       THEN ValuePredicate(returned.object) ELSE <<>>
           industry == IF Mentions(q, "technology") \/ Mentions(q, "tech")
                       THEN IndustryPredicate(returned.object) ELSE <<>>
       IN  /\ DatePredicates(returned.result) = 1..dates
           /\ SubSeq(returned.result, dates + 1, Len(returned.result))
                = status \o value \o industry

\* C19 witness: a query on Account that mentions a date phrase and a phrase of
\* each other group gets all four predicates, in the order date, status, value,
\* industry.
C19_Witness ==
    /\ returned.method = "extractConditionsFromQuery"
    /\ returned.object = "Account"
    /\ Mentions(returned.query, "last quarter")
    /\ Mentions(returned.query, "active high revenue technology")
    /\ returned.result = <<"CreatedDate = LAST_QUARTER", "Active__c = true",
                           "AnnualRevenue > 1000000", "Industry = 'Technology'">>

\* The keyword groups of the fallback in their order, and the object of each
FallbackGroups ==
    <<{"contact", "person"}, {"lead"}, {"opportunity", "deal"}, {"case", "support"}>>

FallbackGroupObjects == <<"Contact", "Lead", "Opportunity", "Case">>

\* C20: fallbackProcessing takes the object of the first keyword group, in the
\* order contact/person, lead, opportunity/deal, case/support, of which the
\* query mentions a keyword in any case, and Account when it mentions none; the
\* fields are Id, Name, CreatedDate and there are no conditions.
C20_FallbackObjectByFirstGroup ==
    returned.method = "fallbackProcessing"
    => LET hits  == {k \in 1..Len(FallbackGroups) :
                        \E w \in FallbackGroups[k] : Mentions(returned.query, w)}
           first == CHOOSE k \in hits : \A j \in hits : k <= j
       IN  /\ returned.result.success
           /\ returned.result.object
                = (IF hits = {} THEN "Account" ELSE FallbackGroupObjects[first])
           /\ returned.result.fields = <<"Id", "Name", "CreatedDate">>
           /\ returned.result.conditions = <<>>

\* C20 witness: the query mentions a keyword of the case group before one of
\* the contact group, both capitalised; the object is Contact.
C20_Witness ==
    /\ returned.method = "fallbackProcessing"
    /\ returned.query = "show Support with Person"
    /\ returned.result.object = "Contact"
    /\ returned.result.fields = <<"Id", "Name", "CreatedDate">>

---------------------------------------------------------------------------
(* Claims C21..C30 *)

\* C21 (as claimed): every intent processQuery returns, whether it comes from
\* the JSON of the reply, from the text of the reply or from the fallback, has
\* an object that is a key of the schema catalog, so that generateSOQL does not
\* reject it as unsupported.
C21_ObjectIsCatalogKey ==
    /\ ProcessQueryReturned => aiResponse.object \in SupportedObjects
    /\ (pc = "awaitGenerateSOQL" /\ ~soqlResult.success)
        => ~StartsWith(soqlResult.error, "Unsupported object: ")

\* The checks of the validator in the order of the claim, each with what makes
\* it fail on the text and the reason reported for it
ChecksInOrder(text) ==
    LET upper == toUpperCase(text)
        keyword(k) == [fails  |-> Occurrences(upper, k) > 0,
                       reason |-> "Forbidden keyword detected: " \o k]
    IN  << [fails  |-> text = "",
            reason |-> "SOQL query is required and must be a string"],
           [fails  |-> Occurrences(upper, "SELECT ") = 0,
            reason |-> "Missing SELECT clause"],
           [fails  |-> Occurrences(upper, " FROM ") = 0,
            reason |-> "Missing FROM clause"],
           keyword("INSERT"), keyword("UPDATE"), keyword("DELETE"),
           keyword("DROP"), keyword("CREATE"), keyword("ALTER"),
           [fails  |-> Occurrences(upper, " LIMIT ") = 0,
            reason |-> "Missing LIMIT clause for performance"],
           [fails  |-> limitMatch(text) # Null /\ parseInt(limitMatch(text)) > MaxLimit,
            reason |-> "LIMIT value cannot exceed 2000"] >>

\* The number of checks of the list that fail
FailingChecks(checks) == {i \in 1..Len(checks) : checks[i].fails}

\* C22: validateSOQL applies its checks in the order non-empty string, SELECT
\* present, FROM present, no forbidden keyword, LIMIT present, LIMIT value at
\* most 2000, and reports only the first check that fails; the forbidden
\* keyword reported is the first of INSERT, UPDATE, DELETE, DROP, CREATE, ALTER
\* that occurs in the text, in any case. A text on which no check fails is
\* accepted.
C22_FirstFailingCheckReported ==
    Validated =>
        LET checks  == ChecksInOrder(soql)
            failing == FailingChecks(checks)
        IN  IF failing = {}
            THEN validationResult.isValid /\ validationResult.error = Null
            ELSE /\ ~validationResult.isValid
                 /\ \E i \in failing :
                        /\ \A j \in failing : i <= j
                        /\ validationResult.error = checks[i].reason

\* C22 witness: a text without LIMIT in which Create stands before Update was
\* rejected for UPDATE, the earlier keyword of the list, and not for the missing
\* LIMIT.
C22_Witness ==
    /\ Validated
    /\ soql = "SELECT Id FROM Account WHERE CreatedDate > LastUpdate__c"
    /\ Cardinality(FailingChecks(ChecksInOrder(soql))) = 3
    /\ validationResult.error = "Forbidden keyword detected: UPDATE"

\* generateSOQL was called on an intent and returned a text
TextReturned == returned.method = "generateSOQL" /\ returned.result.success

\* s has no whitespace at either end and no run of two spaces
Tidy(s) ==
    /\ s # ""
    /\ ~IsWhitespace(CharAt(s, 1))
    /\ ~IsWhitespace(CharAt(s, Len(s)))
    /\ Occurrences(s, "  ") = 0

\* s is empty or whitespace only
Blank(s) == \A i \in 1..Len(s) : IsWhitespace(CharAt(s, i))

\* Every entry of the list that is not blank is tidy
TidyEntries(list) == \A i \in 1..Len(list) : Blank(list[i]) \/ Tidy(list[i])

\* C23 (as claimed): every text generateSOQL returns has no whitespace at its
\* ends and no run of two spaces: its clauses are separated by exactly one
\* space, also where the WHERE or the ORDER BY clause is empty and skipped.
C23_NoRunOfSpaces ==
    TextReturned => Tidy(returned.result.soql)

\* C23 (amended): every text generateSOQL returns has no whitespace at its
\* ends and holds all five clauses in their order (the WHERE and the ORDER BY
\* clause are never empty, nothing is skipped); it has no run of two spaces
\* when the non-blank fields and conditions of the intent have none and no
\* whitespace at their ends.
C23_SingleSpacesBetweenClauses ==
    TextReturned =>
        LET text == returned.result.soql
        IN  /\ StartsWith(text, "SELECT ")
            /\ EndsWith(text, " LIMIT 1000")
            /\ \A clause \in {" FROM ", " WHERE ", " ORDER BY "} :
                    Occurrences(text, clause) >= 1
            /\ IndexOf(text, " FROM ") < IndexOf(text, " WHERE ")
            /\ IndexOf(text, " WHERE ") < IndexOf(text, " ORDER BY ")
            /\ (TidyEntries(returned.intent.fields)
                    /\ TidyEntries(returned.intent.conditions))
                => Tidy(text)

\* C23 witness: an intent without conditions and a query without phrases gave
\* a text whose WHERE clause is the default filter alone, with single spaces
\* throughout.
C23_Witness ==
    /\ TextReturned
    /\ returned.intent.conditions = <<>>
    /\ returned.query = ""
    /\ returned.result.soql
        = "SELECT Id, Name, Industry FROM Account WHERE IsDeleted = false ORDER BY Name LIMIT 1000"

\* C27 (as claimed): mapBusinessTerm(term) returns the canonical token of the
\* table entry whose phrase equals term ignoring case, and returns term itself,
\* unchanged and in its original case, when no entry matches; it never fails,
\* and every object synonym of the table resolves to a key of the schema catalog.
C27_TokenOrTermUnchanged ==
    returned.method = "mapBusinessTerm" =>
        LET term    == returned.term
            matches == {e \in businessTerms : e[1] = toLowerCase(term)}
        IN  /\ returned.result.type = "string"
            /\ \A e \in matches : returned.result.value = e[2]
            /\ matches = {} => returned.result.value = term
            /\ \A e \in objectMappings : e[2] \in SupportedObjects

ServerEndings == ServerOutcomes \cup {NoOutcome}

\* What a request with the query text q gets when it runs alone and its
\* gateway call, if one is made, ends in outcome: the intent processQuery
\* returns, the result of generateSOQL, the intent as generateSOQL leaves it,
\* the response
soloRun ==
    [q \in ServerTexts, outcome \in ServerEndings, isConfigured \in BOOLEAN |->
        LET intent == IF isConfigured /\ outcome # NoOutcome
                      THEN processQueryResult(outcome, q)
                      ELSE fallbackProcessing(q)
            result == generateSOQL(intent, q)
        IN  [intent   |-> intent,
             result   |-> result,
             after    |-> intentAfterGenerate(intent),
             response |-> routeResponse(intentAfterGenerate(intent), result, q)]]

\* C25: when several POST /api/parse-query requests interleave at their awaits,
\* each request holds at every stage what it would hold running alone, and its
\* response is the one it would get alone: no request reads a value another
\* request wrote.
C25_EachRequestAsIfAlone ==
    \A r \in RequestIds :
        LET mine == requests[r]
            solo == soloRun[mine.req.query, mine.outcome, configured]
        IN  /\ mine.pc = "awaitProcessQuery" => mine.aiResponse = solo.intent
            /\ mine.pc = "awaitGenerateSOQL"
                => mine.aiResponse = solo.after /\ mine.soqlResult = solo.result
            /\ (mine.pc = "responded" /\ inputInvalid(mine.req))
                => mine.response = inputError(mine.req)
            /\ (mine.pc = "responded" /\ ~inputInvalid(mine.req))
                => /\ mine.response = solo.response
                   /\ mine.aiResponse = solo.after
                   /\ mine.soqlResult = solo.result

\* C25 witness: two requests with different queries are open; the one that
\* arrived first has its response, built from a text for its own query, while
\* the one that arrived later is still suspended.
C25_Witness ==
    /\ arrivals = <<1, 2>>
    /\ requests[1].req.query = "Show me accounts with high revenue"
    /\ requests[2].req.query = "open cases this quarter"
    /\ requests[1].pc = "responded"
    /\ requests[1].soqlResult.success
    /\ includes(requests[1].soqlResult.soql, "AnnualRevenue > 1000000")
    /\ requests[2].pc \in {"awaitGateway", "awaitProcessQuery", "awaitGenerateSOQL"}

\* A request whose input check passed
Admitted(r) == requests[r].pc # "idle" /\ ~inputInvalid(requests[r].req)

\* C26: for each request the pipeline calls the gateway at most once: not at
\* all when the service is not configured, exactly once otherwise, and after
\* the call has failed the keyword fallback is returned with no further call.
C26_GatewayCalledAtMostOnce ==
    \A r \in RequestIds :
        /\ requests[r].gatewayCalls <= 1
        /\ Admitted(r) => requests[r].gatewayCalls = (IF configured THEN 1 ELSE 0)
        /\ ~Admitted(r) => requests[r].gatewayCalls = 0
        /\ (Admitted(r) /\ requests[r].outcome.kind = "throws")
            => /\ requests[r].gatewayCalls = 1
               /\ requests[r].pc \in {"awaitProcessQuery", "awaitGenerateSOQL",
                                      "responded"}
               /\ requests[r].aiResponse.explanation
                    = fallbackExplanation(requests[r].req.query)

\* C26 witness: the gateway call of a request threw, and the request has its
\* response after the keyword fallback, with one call made.
C26_Witness ==
    \E r \in RequestIds :
        /\ configured
        /\ requests[r].outcome.kind = "throws"
        /\ requests[r].pc = "responded"
        /\ requests[r].gatewayCalls = 1

\* C28 (as claimed): GET /api/parse-query/health always responds 200 with
\* status 'healthy' and with openai 'configured' when the API key was set at
\* start-up and 'not configured' otherwise; the call of isConfigured() does not
\* raise.
C28_HealthAlwaysAnswers ==
    lastReply.endpoint = "health"
    => /\ lastReply.status = 200
       /\ lastReply.body.status = "healthy"
       /\ lastReply.body.openai = (IF configured THEN "configured" ELSE "not configured")

\* C29: in the component at most one processQuery call is in flight at any
\* time: a call starts only when _isProcessing is false and the current query
\* has at least QUERY_MIN_LENGTH characters, _isProcessing is true as long as
\* the call has not settled, and it is false again after every call, whether
\* the call succeeded, returned success false or was rejected.
C29_OneCallInFlight ==
    /\ [](/\ Len(apexCalls) <= 1
          /\ isProcessing <=> (Len(apexCalls) = 1)
          /\ \A i \in 1..Len(apexCalls) : Len(apexCalls[i].query) >= QUERY_MIN_LENGTH)
    /\ [][Len(apexCalls') > Len(apexCalls)
            => /\ ~isProcessing
               /\ Len(currentQuery) >= QUERY_MIN_LENGTH
               /\ apexCalls' = <<[query |-> currentQuery]>>]_vars

\* C29 witness: a call was started and was rejected, and _isProcessing is
\* false again with no call in flight.
C29_Witness ==
    /\ submits >= 1
    /\ errorState = "Apex request failed"
    /\ ~isProcessing
    /\ apexCalls = <<>>

\* C30 (as claimed): every entry of the history pairs a result with the query
\* text that was submitted for the call the result came from, whatever
\* handleQueryInput, the completion of _loadQueryHistory and
\* disconnectedCallback did while the call was in flight; and the history never
\* holds more than MAX_HISTORY_RECORDS entries.
C30_EntryPairsResultWithItsQuery ==
    /\ \A i \in 1..Len(queryHistory) :
            queryHistory[i].query = queryHistory[i].result.forQuery
    /\ Len(queryHistory) <= MAX_HISTORY_RECORDS

===========================================================================
